---------------------------- MODULE Spec2Model ----------------------------
(***************************************************************************)
(* A model of the Thrift JSON codecs of lib/cpp/src/thrift/protocol:       *)
(*   TJSONUtils       - lookahead reader, contexts, context stack and the  *)
(*                      primitive writers and readers,                     *)
(*   TJSONProtocol    - the base codec (a message is a JSON array),        *)
(*   TJSONRPCProtocol - the JSON-RPC 2.0 codec (a message is an envelope). *)
(*                                                                         *)
(* Bytes are the integers 0..255; a transport is a sequence of bytes with  *)
(* a read position.  Every public operation of a protocol instance is one  *)
(* action.  The body of an operation is an operator on a record p holding  *)
(* the instance's fields; an exception is the field p.err, and every step  *)
(* after a throw leaves p as it is, so a throwing operation keeps exactly  *)
(* the effects it had before the throw, as in the code.  The byte counts   *)
(* the operations return are not modelled.                                 *)
(***************************************************************************)
EXTENDS Integers, Sequences, FiniteSets, TLC

VARIABLES
  codec,                \* class of the instance: "rpc" or "base"
  mode_,                \* TJSONRPCProtocol::mode_
  flags_,               \* TJSONRPCProtocol::flags_
  message_,             \* TJSONRPCProtocol::message_
  buffer_,              \* TJSONRPCProtocol::buffer_ (a TMemoryBuffer)
  trans,                \* the transport the instance was constructed on
  transport_contexts_,  \* TJSONRPCProtocol::transport_contexts_ / TJSONProtocol::contexts_
  buffer_contexts_,     \* TJSONRPCProtocol::buffer_contexts_
  scen,                 \* the caller's input: the message it writes or the bytes it is fed
  script,               \* the caller's remaining calls
  done                  \* the calls made so far, with what each returned

vars == <<codec, mode_, flags_, message_, buffer_, trans, transport_contexts_,
          buffer_contexts_, scen, script, done>>

----------------------------------------------------------------------------
(* Bytes and byte strings                                                  *)

AsciiLo == " !\"#$%&'()*+,-./0123456789:;<=>?@ABCDEFGHIJKLMNOPQRSTUVWXYZ[\\]^_"
AsciiHi == "abcdefghijklmnopqrstuvwxyz{|}~"

\* The byte value of a printable character given as a one-character string.
Ord(c) ==
  IF \E i \in 1..Len(AsciiLo) : SubSeq(AsciiLo, i, i) = c
  THEN 31 + (CHOOSE i \in 1..Len(AsciiLo) : SubSeq(AsciiLo, i, i) = c)
  ELSE 96 + (CHOOSE i \in 1..Len(AsciiHi) : SubSeq(AsciiHi, i, i) = c)

\* The bytes of a string literal.
B(s) == [i \in 1..Len(s) |-> Ord(SubSeq(s, i, i))]

\* A local of the code: v is computed once and the body uses it.
Bind(v, Body(_)) == Body(v)

kJSONObjectStart == Ord("{")
kJSONObjectEnd == Ord("}")
kJSONArrayStart == Ord("[")
kJSONArrayEnd == Ord("]")
kJSONPairSeparator == Ord(":")
kJSONElemSeparator == Ord(",")
kJSONBackslash == Ord("\\")
kJSONStringDelimiter == Ord("\"")
kJSONZeroChar == Ord("0")
kJSONEscapeChar == Ord("u")

kJSONEscapePrefix == B("\\u00")

kJSONRPCName == B("jsonrpc")
kJSONRPCVersion == B("2.0")
kJSONRPCMethod == B("method")
\* a faulty variant of kJSONRPCParams
FaultyParams == B("param")
kJSONRPCParams == B("params")
kJSONRPCId == B("id")
\* a faulty variant of kJSONRPCResult
FaultyResult == B("Result")
kJSONRPCResult == B("result")
kJSONRPCError == B("error")
kJSONRPCCode == B("code")
kJSONRPCMessage == B("message")
kJSONRPCData == B("data")

kThriftVersion1 == 1

\* The message types, with the values the base codec writes for them.
TMessageType == [T_CALL |-> 1, T_REPLY |-> 2, T_EXCEPTION |-> 3, T_ONEWAY |-> 4]

\* JSONRPCFlags
JSONRPC_UNSET == 0
JSONRPC_VERSION == 1
JSONRPC_METHOD == 2
JSONRPC_ID == 4
JSONRPC_PARAMS == 8
JSONRPC_RESULT == 16
JSONRPC_ERR_CODE == 32
JSONRPC_ERR_MSG == 64
JSONRPC_ERR_DATA == 128
JSONRPC_REQUEST == JSONRPC_VERSION + JSONRPC_ID + JSONRPC_METHOD
JSONRPC_FULL_REQUEST == JSONRPC_REQUEST + JSONRPC_PARAMS
JSONRPC_NOTIFICATION == JSONRPC_VERSION + JSONRPC_METHOD
JSONRPC_FULL_NOTIFICATION == JSONRPC_NOTIFICATION + JSONRPC_PARAMS
\* a faulty variant of JSONRPC_RESPONSE: a response needs no id
FaultyResponse == JSONRPC_VERSION + JSONRPC_RESULT
JSONRPC_RESPONSE == JSONRPC_VERSION + JSONRPC_ID + JSONRPC_RESULT
JSONRPC_ERROR == JSONRPC_VERSION + JSONRPC_ID + JSONRPC_ERR_CODE + JSONRPC_ERR_MSG
JSONRPC_FULL_ERROR == JSONRPC_ERROR + JSONRPC_ERR_DATA

\* a faulty variant of operator|: the right operand replaces the left
FaultyFlagOr(lhs, rhs) == rhs

\* operator| on JSONRPCFlags, for a right operand that is a single bit.
FlagOr(lhs, rhs) == IF (lhs \div rhs) % 2 = 1 THEN lhs ELSE lhs + rhs

RW_TRANSPORT == "RW_TRANSPORT"
RW_BUFFERED == "RW_BUFFERED"

----------------------------------------------------------------------------
(* Exceptions                                                              *)

Ok(p) == p.err = "none"
Throw(p, e) == IF Ok(p) THEN [p EXCEPT !.err = e] ELSE p

\* The statements after a call that can throw: Body runs on what the call
\* left, unless it threw.
Try(v, Body(_)) == IF v.err = "none" THEN Body(v) ELSE v

----------------------------------------------------------------------------
(* Transports: the instance's transport ("T") and the scratch buffer ("B")  *)

EmptyTransport == [data |-> <<>>, rpos |-> 0]

\* TTransport::write
TransWrite(p, tr, bytes) ==
  IF ~Ok(p) THEN p
  ELSE IF tr = "T" THEN [p EXCEPT !.trans.data = @ \o bytes]
  ELSE [p EXCEPT !.buffer.data = @ \o bytes]

\* TTransport::readAll(&b, 1): the next byte in p.ch, or end of file.
TransRead1(p, tr) ==
  IF ~Ok(p) THEN p
  ELSE IF tr = "T"
       THEN IF p.trans.rpos >= Len(p.trans.data) THEN Throw(p, "END_OF_FILE")
            ELSE [p EXCEPT !.trans.rpos = @ + 1, !.ch = p.trans.data[p.trans.rpos + 1]]
  ELSE IF p.buffer.rpos >= Len(p.buffer.data) THEN Throw(p, "END_OF_FILE")
  ELSE [p EXCEPT !.buffer.rpos = @ + 1, !.ch = p.buffer.data[p.buffer.rpos + 1]]

\* TMemoryBuffer::resetBuffer
ResetBuffer(p) == IF ~Ok(p) THEN p ELSE [p EXCEPT !.buffer = EmptyTransport]

----------------------------------------------------------------------------
(* Contexts.  A stack is a sequence of contexts, the root first; its last   *)
(* element is TJSONContextStack::context_ and the others are contexts_.     *)

\* a context on the transport tr, with its own lookahead reader
NewContext(kind, tr) ==
  [kind |-> kind, first |-> TRUE, colon |-> TRUE, hasData |-> FALSE, data |-> 0, tr |-> tr]

\* TJSONContextStack::TJSONContextStack
NewContextStack(tr) == <<NewContext("bare", tr)>>

\* contexts(): TJSONRPCProtocol picks the stack by mode_; TJSONProtocol has
\* the one stack on its transport
Cur(p) == IF p.codec = "rpc" /\ p.mode = RW_BUFFERED THEN "B" ELSE "T"
Stk(p) == IF Cur(p) = "T" THEN p.tctx ELSE p.bctx
SetStk(p, v) == IF Cur(p) = "T" THEN [p EXCEPT !.tctx = v] ELSE [p EXCEPT !.bctx = v]

\* context(): the top of the stack in use
Ctx(p) == Stk(p)[Len(Stk(p))]
SetCtx(p, c) == SetStk(p, [Stk(p) EXCEPT ![Len(Stk(p))] = c])

\* LookaheadReader::read, of the reader of context()
ReaderRead(p) ==
  IF ~Ok(p) THEN p
  ELSE IF Ctx(p).hasData
       THEN [SetCtx(p, [Ctx(p) EXCEPT !.hasData = FALSE]) EXCEPT !.ch = Ctx(p).data]
  ELSE Try(TransRead1(p, Ctx(p).tr),
           LAMBDA q : SetCtx(q, [Ctx(q) EXCEPT !.data = q.ch]))

\* a faulty variant of LookaheadReader::peek: the byte pulled is returned but
\* not marked as held
FaultyReaderPeek(p) ==
  IF ~Ok(p) THEN p
  ELSE IF Ctx(p).hasData THEN [p EXCEPT !.ch = Ctx(p).data]
  ELSE Try(TransRead1(p, Ctx(p).tr),
           LAMBDA q : SetCtx(q, [Ctx(q) EXCEPT !.data = q.ch]))

\* LookaheadReader::peek
ReaderPeek(p) ==
  IF ~Ok(p) THEN p
  ELSE IF Ctx(p).hasData THEN [p EXCEPT !.ch = Ctx(p).data]
  ELSE Try(TransRead1(p, Ctx(p).tr),
           LAMBDA q : SetCtx(q, [Ctx(q) EXCEPT !.data = q.ch, !.hasData = TRUE]))

\* readSyntaxChar
ReadSyntaxChar(p, ch) ==
  Try(ReaderRead(p), LAMBDA q : IF q.ch # ch THEN Throw(q, "INVALID_DATA") ELSE q)

\* a faulty variant of writeNext: the pair context writes the element
\* separator ahead of its first key too
FaultyWriteNext(p) ==
  IF ~Ok(p) THEN p
  ELSE CASE Ctx(p).kind = "pair" ->
              Bind(TransWrite(p, Ctx(p).tr,
                              <<IF Ctx(p).colon THEN kJSONPairSeparator
                                                ELSE kJSONElemSeparator>>),
                   LAMBDA q : SetCtx(q, [Ctx(q) EXCEPT !.first = FALSE, !.colon = ~@]))
         [] Ctx(p).kind = "list" ->
              IF Ctx(p).first
              THEN SetCtx(p, [Ctx(p) EXCEPT !.first = FALSE])
              ELSE TransWrite(p, Ctx(p).tr, <<kJSONElemSeparator>>)
         [] OTHER -> p

\* TJSONContext::writeNext and its overrides in TJSONPairContext and
\* TJSONListContext, of context()
WriteNext(p) ==
  IF ~Ok(p) THEN p
  ELSE CASE Ctx(p).kind = "pair" ->
              IF Ctx(p).first
              THEN SetCtx(p, [Ctx(p) EXCEPT !.first = FALSE, !.colon = TRUE])
              ELSE Bind(TransWrite(p, Ctx(p).tr,
                                   <<IF Ctx(p).colon THEN kJSONPairSeparator
                                                     ELSE kJSONElemSeparator>>),
                        LAMBDA q : SetCtx(q, [Ctx(q) EXCEPT !.colon = ~@]))
         [] Ctx(p).kind = "list" ->
              IF Ctx(p).first
              THEN SetCtx(p, [Ctx(p) EXCEPT !.first = FALSE])
              ELSE TransWrite(p, Ctx(p).tr, <<kJSONElemSeparator>>)
         [] OTHER -> p

\* a faulty variant of readNext: the pair context takes whatever byte stands
\* where its separator is expected
FaultyReadNext(p) ==
  IF ~Ok(p) THEN p
  ELSE CASE Ctx(p).kind = "pair" ->
              IF Ctx(p).first
              THEN SetCtx(p, [Ctx(p) EXCEPT !.first = FALSE, !.colon = TRUE])
              ELSE ReaderRead(SetCtx(p, [Ctx(p) EXCEPT !.colon = ~@]))
         [] Ctx(p).kind = "list" ->
              IF Ctx(p).first
              THEN SetCtx(p, [Ctx(p) EXCEPT !.first = FALSE])
              ELSE ReadSyntaxChar(p, kJSONElemSeparator)
         [] OTHER -> p

\* TJSONContext::readNext and its overrides
ReadNext(p) ==
  IF ~Ok(p) THEN p
  ELSE CASE Ctx(p).kind = "pair" ->
              IF Ctx(p).first
              THEN SetCtx(p, [Ctx(p) EXCEPT !.first = FALSE, !.colon = TRUE])
              ELSE ReadSyntaxChar(SetCtx(p, [Ctx(p) EXCEPT !.colon = ~@]),
                                  IF Ctx(p).colon THEN kJSONPairSeparator
                                                  ELSE kJSONElemSeparator)
         [] Ctx(p).kind = "list" ->
              IF Ctx(p).first
              THEN SetCtx(p, [Ctx(p) EXCEPT !.first = FALSE])
              ELSE ReadSyntaxChar(p, kJSONElemSeparator)
         [] OTHER -> p

\* a faulty variant of escapeNum: the pair context quotes the numbers that
\* are values, not those that are keys
FaultyEscapeNum(c) == IF c.kind = "pair" THEN ~c.colon ELSE FALSE

\* TJSONContext::escapeNum and its override in TJSONPairContext
EscapeNum(c) == IF c.kind = "pair" THEN c.colon ELSE FALSE

\* the byte writeStart / readStart and writeEnd / readEnd write or expect
Opener(kind) == IF kind = "list" THEN kJSONArrayStart ELSE kJSONObjectStart
Closer(kind) == IF kind = "list" THEN kJSONArrayEnd ELSE kJSONObjectEnd

\* a faulty variant of TJSONContextStack::pop: the context stays
FaultyPop(p) == p

\* TJSONContextStack::push and pop.  pop() of a stack that holds the root
\* only reads the top of an empty std::stack: undefined behaviour, reported
\* as the outcome "UB".
Push(p, kind) == IF ~Ok(p) THEN p ELSE SetStk(p, Append(Stk(p), NewContext(kind, Ctx(p).tr)))
Pop(p) ==
  IF ~Ok(p) THEN p
  ELSE IF Len(Stk(p)) = 1 THEN Throw(p, "UB")
  ELSE SetStk(p, SubSeq(Stk(p), 1, Len(Stk(p)) - 1))

\* a faulty variant of TJSONContextStack::pushWrite: the opener is written
\* ahead of the separator of the parent
FaultyPushWrite(p, kind) ==
  Push(Bind(TransWrite(p, Ctx(p).tr, <<Opener(kind)>>), LAMBDA q : WriteNext(q)), kind)

\* TJSONContextStack::pushWrite: c->writeStart(context_), then push(c)
PushWrite(p, kind) ==
  Push(Bind(WriteNext(p), LAMBDA q : TransWrite(q, Ctx(q).tr, <<Opener(kind)>>)), kind)

\* a faulty variant of TJSONContextStack::popWrite: no writeEnd()
FaultyPopWrite(p) == Pop(p)

\* TJSONContextStack::popWrite: context_->writeEnd(), then pop()
PopWrite(p) == Pop(TransWrite(p, Ctx(p).tr, <<Closer(Ctx(p).kind)>>))

\* TJSONContextStack::pushRead: c->readStart(context_), then push(c).  The
\* opener is read through the reader of the new context c; when that throws,
\* c is not pushed.
PushRead(p, kind) ==
  Bind(ReadSyntaxChar(Push(ReadNext(p), kind), Opener(kind)),
       LAMBDA q : IF Ok(q) \/ q.err = "UB" THEN q
                  ELSE IF Len(Stk(q)) > Len(Stk(p))
                       THEN SetStk(q, SubSeq(Stk(q), 1, Len(Stk(q)) - 1))
                  ELSE q)

\* TJSONContextStack::popRead: context_->readEnd(), then pop()
PopRead(p) == Pop(ReadSyntaxChar(p, Closer(Ctx(p).kind)))

----------------------------------------------------------------------------
(* Type identifiers                                                        *)

\* getTypeNameForTypeID: the name (kTypeNameBool ... kTypeNameSet), or <<>>
\* for the NOT_IMPLEMENTED throw
getTypeNameForTypeID(typeID) ==
  CASE typeID = "T_BOOL" -> B("tf")
    [] typeID = "T_BYTE" -> B("i8")
    [] typeID = "T_I16" -> B("i16")
    [] typeID = "T_I32" -> B("i32")
    [] typeID = "T_I64" -> B("i64")
    [] typeID = "T_DOUBLE" -> B("dbl")
    [] typeID = "T_STRING" -> B("str")
    [] typeID = "T_STRUCT" -> B("rec")
    [] typeID = "T_MAP" -> B("map")
    [] typeID = "T_SET" -> B("set")
    [] typeID = "T_LIST" -> B("lst")
    [] OTHER -> <<>>

\* getTypeIDForTypeName: the type, or T_STOP for the NOT_IMPLEMENTED throw
getTypeIDForTypeName(name) ==
  IF Len(name) > 1
  THEN CASE name[1] = Ord("d") -> "T_DOUBLE"
         [] name[1] = Ord("i") ->
              (CASE name[2] = Ord("8") -> "T_BYTE"
                 [] name[2] = Ord("1") -> "T_I16"
                 [] name[2] = Ord("3") -> "T_I32"
                 [] name[2] = Ord("6") -> "T_I64"
                 [] OTHER -> "T_STOP")
         [] name[1] = Ord("l") -> "T_LIST"
         [] name[1] = Ord("m") -> "T_MAP"
         [] name[1] = Ord("r") -> "T_STRUCT"
         [] name[1] = Ord("s") ->
              (CASE name[2] = Ord("t") -> "T_STRING"
                 [] name[2] = Ord("e") -> "T_SET"
                 [] OTHER -> "T_STOP")
         [] name[1] = Ord("t") -> "T_BOOL"
         [] OTHER -> "T_STOP"
  ELSE "T_STOP"

----------------------------------------------------------------------------
(* Numbers as decimal text                                                 *)

RECURSIVE NatToStr(_)
NatToStr(n) ==
  IF n < 10 THEN <<kJSONZeroChar + n>>
  ELSE Append(NatToStr(n \div 10), kJSONZeroChar + (n % 10))

\* boost::lexical_cast<std::string>(num) of an integer
IntToStr(n) == IF n < 0 THEN <<Ord("-")>> \o NatToStr(0 - n) ELSE NatToStr(n)

IsDigit(ch) == ch >= Ord("0") /\ ch <= Ord("9")

\* a digit string without its leading zeros (one digit at least is kept)
StripZeros(ds) ==
  IF \A i \in 1..Len(ds) : ds[i] = kJSONZeroChar THEN SubSeq(ds, Len(ds), Len(ds))
  ELSE SubSeq(ds, CHOOSE i \in 1..Len(ds) :
                    /\ ds[i] # kJSONZeroChar
                    /\ \A j \in 1..(i - 1) : ds[j] = kJSONZeroChar, Len(ds))

\* the value of a digit string, the halves of the string taken in turn
RECURSIVE DigitsVal(_)
DigitsVal(ds) ==
  IF ds = <<>> THEN 0
  ELSE IF Len(ds) = 1 THEN ds[1] - kJSONZeroChar
  ELSE DigitsVal(SubSeq(ds, 1, Len(ds) \div 2)) * 10 ^ (Len(ds) - Len(ds) \div 2)
         + DigitsVal(SubSeq(ds, Len(ds) \div 2 + 1, Len(ds)))

\* a <= b for two digit strings without leading zeros
DigitsLE(a, b) ==
  IF Len(a) # Len(b) THEN Len(a) < Len(b)
  ELSE \/ a = b
       \/ \E i \in 1..Len(a) : a[i] < b[i] /\ \A j \in 1..(i - 1) : a[j] = b[j]

\* the number no cast produced
NoNum == [ok |-> FALSE, val |-> 0, big |-> FALSE, over32 |-> FALSE]

\* boost::lexical_cast<NumberType>(str) for the integer types readInteger is
\* instantiated with.  ok = FALSE is bad_lexical_cast.  A value above 2^31-1
\* is not computed: big = TRUE stands for it (val is then meaningless) and
\* over32 tells whether it is above 2^32-1.  Signed types take an optional
\* sign and digits, within the type's range; uint64_t takes digits up to
\* 2^64-1 and, after a '-', negates modulo 2^64 (2^64 - m, which is below
\* 2^31 from m = 18446744071562067969 on); bool takes 0 or 1.
LexicalCast(str, ty) ==
  LET signed == str # <<>> /\ str[1] \in {Ord("-"), Ord("+")}
      neg == str # <<>> /\ str[1] = Ord("-")
      ds == IF signed THEN Tail(str) ELSE str
      sig == StripZeros(ds)
      small == DigitsLE(sig, B("2147483647"))
      v == IF small THEN DigitsVal(sig) ELSE 0
      Num(n) == [NoNum EXCEPT !.ok = TRUE, !.val = n]
      BigNum(over) == [NoNum EXCEPT !.ok = TRUE, !.big = TRUE, !.over32 = over]
  IN IF ds = <<>> \/ \E i \in 1..Len(ds) : ~IsDigit(ds[i]) THEN NoNum
     ELSE CASE ty = "bool" ->
                 IF small /\ v \in {0, 1} /\ Len(ds) = 1 THEN Num(v) ELSE NoNum
            [] ty = "int16" ->
                 IF small /\ (v <= 32767 \/ (neg /\ v = 32768))
                 THEN Num(IF neg THEN 0 - v ELSE v) ELSE NoNum
            [] ty = "int32" ->
                 IF small THEN Num(IF neg THEN 0 - v ELSE v) ELSE NoNum
            [] ty = "int64" ->
                 IF small THEN Num(IF neg THEN 0 - v ELSE v)
                 ELSE IF DigitsLE(sig, IF neg THEN B("9223372036854775808")
                                              ELSE B("9223372036854775807"))
                      THEN BigNum(~DigitsLE(sig, B("4294967295")))
                 ELSE NoNum
            [] ty = "uint64" ->
                 IF small /\ (~neg \/ v = 0) THEN Num(v)
                 ELSE IF ~DigitsLE(sig, B("18446744073709551615")) THEN NoNum
                 ELSE IF ~neg THEN BigNum(~DigitsLE(sig, B("4294967295")))
                 ELSE IF DigitsLE(B("18446744071562067969"), sig)
                      THEN Num((709551616 - DigitsVal(SubSeq(sig, 12, 20)))
                               + 1000000000 * (Ord("3") - sig[11]))
                 ELSE BigNum(DigitsLE(sig, B("18446744069414584320")))

\* isJSONNumeric
isJSONNumeric(ch) ==
  ch \in {Ord("+"), Ord("-"), Ord("."), Ord("E"), Ord("e")} \/ IsDigit(ch)

----------------------------------------------------------------------------
(* Strings                                                                 *)

\* kJSONCharTable: 0 = \u00xx, 1 = the byte itself, other = backslash + value
kJSONCharTable(ch) ==
  CASE ch = 8 -> Ord("b")
    [] ch = 9 -> Ord("t")
    [] ch = 10 -> Ord("n")
    [] ch = 12 -> Ord("f")
    [] ch = 13 -> Ord("r")
    [] ch = 34 -> Ord("\"")
    [] ch >= 32 /\ ch < 48 -> 1
    [] OTHER -> 0

\* hexChar
hexChar(val) ==
  IF val % 16 < 10 THEN (val % 16) + Ord("0") ELSE (val % 16) - 10 + Ord("a")

\* hexVal: the value, or -1 for the INVALID_DATA throw
hexVal(ch) ==
  IF ch >= Ord("0") /\ ch <= Ord("9") THEN ch - Ord("0")
  ELSE IF ch >= Ord("a") /\ ch <= Ord("f") THEN ch - Ord("a") + 10
  ELSE 0 - 1

\* TJSONContext::writeChar, with writeEscapeChar: the bytes written for one
\* byte of a string
writeChar(ch) ==
  IF ch >= 48
  THEN IF ch = kJSONBackslash THEN <<kJSONBackslash, kJSONBackslash>> ELSE <<ch>>
  ELSE IF kJSONCharTable(ch) = 1 THEN <<ch>>
  ELSE IF kJSONCharTable(ch) > 1 THEN <<kJSONBackslash, kJSONCharTable(ch)>>
  ELSE kJSONEscapePrefix \o <<hexChar(ch \div 16), hexChar(ch)>>

\* the bytes the loop of TJSONContext::writeString writes between the quotes,
\* the halves of the string taken in turn
RECURSIVE StringBytes(_)
StringBytes(str) ==
  IF str = <<>> THEN <<>>
  ELSE IF Len(str) = 1 THEN writeChar(str[1])
  ELSE StringBytes(SubSeq(str, 1, Len(str) \div 2))
         \o StringBytes(SubSeq(str, Len(str) \div 2 + 1, Len(str)))

\* TJSONContext::writeString, of context()
CtxWriteString(p, str) ==
  Try(WriteNext(p),
      LAMBDA q : TransWrite(q, Ctx(q).tr, <<kJSONStringDelimiter>> \o StringBytes(str)
                                             \o <<kJSONStringDelimiter>>))

\* TJSONContext::writeInteger
CtxWriteInteger(p, num) ==
  Try(WriteNext(p),
      LAMBDA q : TransWrite(q, Ctx(q).tr,
                             IF EscapeNum(Ctx(q))
                             THEN <<kJSONStringDelimiter>> \o IntToStr(num)
                                    \o <<kJSONStringDelimiter>>
                             ELSE IntToStr(num)))

\* a faulty variant of TJSONContext::writeTypeID: no tag is written
FaultyCtxWriteTypeID(p, typeID) == p

\* TJSONContext::writeTypeID
CtxWriteTypeID(p, typeID) ==
  IF getTypeNameForTypeID(typeID) = <<>> THEN Throw(p, "NOT_IMPLEMENTED")
  ELSE CtxWriteString(p, getTypeNameForTypeID(typeID))

isHighSurrogate(val) == val >= 55296 /\ val <= 56319
isLowSurrogate(val) == val >= 56320 /\ val <= 57343

\* The UTF-8 bytes of a code point.
Utf8(cp) ==
  IF cp < 128 THEN <<cp>>
  ELSE IF cp < 2048 THEN <<192 + (cp \div 64), 128 + (cp % 64)>>
  ELSE IF cp < 65536
       THEN <<224 + (cp \div 4096), 128 + ((cp \div 64) % 64), 128 + (cp % 64)>>
  ELSE <<240 + (cp \div 262144), 128 + ((cp \div 4096) % 64),
         128 + ((cp \div 64) % 64), 128 + (cp % 64)>>

\* boost::locale::conv::utf_to_utf<char>(codeunits.data()): the code units up
\* to the first 0, decoded as UTF-16; an ill-formed sequence is skipped.
RECURSIVE Utf16ToUtf8(_)
Utf16ToUtf8(cu) ==
  IF cu = <<>> \/ Head(cu) = 0 THEN <<>>
  ELSE IF ~isHighSurrogate(Head(cu)) /\ ~isLowSurrogate(Head(cu))
       THEN Utf8(Head(cu)) \o Utf16ToUtf8(Tail(cu))
  ELSE IF isLowSurrogate(Head(cu)) THEN Utf16ToUtf8(Tail(cu))
  ELSE IF Len(cu) = 1 \/ cu[2] = 0 THEN <<>>
  ELSE IF isLowSurrogate(cu[2])
       THEN Utf8(65536 + (Head(cu) - 55296) * 1024 + (cu[2] - 56320))
              \o Utf16ToUtf8(Tail(Tail(cu)))
  ELSE Utf16ToUtf8(Tail(Tail(cu)))

kEscapeChars == B("\"\\bfnrt")
kEscapeCharVals == <<34, 92, 8, 12, 10, 13, 9>>

\* TJSONContext::readEscapeChar: four reads b, then the code unit in p.cp
ReadEscapeChar(p) ==
  Try(ReaderRead(p), LAMBDA q1 :
  Try(ReaderRead(q1), LAMBDA q2 :
  Try(ReaderRead(q2), LAMBDA q3 :
  Try(ReaderRead(q3), LAMBDA q4 :
    IF \E b \in {q1.ch, q2.ch, q3.ch, q4.ch} : hexVal(b) < 0
         THEN Throw(q4, "INVALID_DATA")
    ELSE [q4 EXCEPT !.cp = hexVal(q1.ch) * 4096 + hexVal(q2.ch) * 256
                             + hexVal(q3.ch) * 16 + hexVal(q4.ch)]))))

\* One pass through the loop of TJSONContext::readString: p.str is the
\* string read so far, p.codeunits the pending code units, and p.brk is set
\* by the break at the closing quote.
ReadStringStep(p) ==
  Try(ReaderRead(p), LAMBDA q : IF q.ch = kJSONStringDelimiter THEN [q EXCEPT !.brk = TRUE]
    ELSE IF q.ch # kJSONBackslash
         THEN IF q.codeunits # <<>> THEN Throw(q, "INVALID_DATA")
              ELSE [q EXCEPT !.str = Append(@, q.ch)]
    ELSE Try(ReaderRead(q), LAMBDA q2 : IF q2.ch = kJSONEscapeChar
           THEN Try(ReadEscapeChar(q2), LAMBDA q3 : IF isHighSurrogate(q3.cp)
                       THEN [q3 EXCEPT !.codeunits = Append(@, q3.cp)]
                  ELSE IF isLowSurrogate(q3.cp) /\ q3.codeunits = <<>>
                       THEN Throw(q3, "INVALID_DATA")
                  ELSE [q3 EXCEPT
                          !.str = @ \o Utf16ToUtf8(Append(q3.codeunits, q3.cp) \o <<0>>),
                          !.codeunits = <<>>])
      ELSE IF ~\E k \in 1..Len(kEscapeChars) : kEscapeChars[k] = q2.ch
           THEN Throw(q2, "INVALID_DATA")
      ELSE IF q2.codeunits # <<>> THEN Throw(q2, "INVALID_DATA")
      ELSE [q2 EXCEPT !.str = Append(@, kEscapeCharVals[
                                CHOOSE k \in 1..Len(kEscapeChars) :
                                  kEscapeChars[k] = q2.ch])]))

\* The loop of TJSONContext::readString after a pass: it ends at the break or
\* at a throw.
RECURSIVE ReadStringLoop(_)
ReadStringLoop(q) ==
  IF q.brk \/ ~Ok(q) THEN q ELSE ReadStringLoop(ReadStringStep(q))

\* TJSONContext::readString, of context(); the string is left in p.str
CtxReadString(p, skipContext) ==
  Try(ReadSyntaxChar(IF skipContext THEN p ELSE ReadNext(p), kJSONStringDelimiter),
      LAMBDA q :
    Try(ReadStringLoop([q EXCEPT !.str = <<>>, !.codeunits = <<>>, !.brk = FALSE]),
        LAMBDA r :
      IF r.codeunits # <<>> THEN Throw([r EXCEPT !.brk = FALSE], "INVALID_DATA")
      ELSE [r EXCEPT !.brk = FALSE]))

\* TJSONContext::readTypeID: the type is left in p.ty
CtxReadTypeID(p) ==
  Try(CtxReadString(p, FALSE), LAMBDA q : IF getTypeIDForTypeName(q.str) = "T_STOP" THEN Throw(q, "NOT_IMPLEMENTED")
    ELSE [q EXCEPT !.ty = getTypeIDForTypeName(q.str)])

\* the Base64 alphabet of base64_encode and base64_decode
kBase64EncodeTable ==
  B("ABCDEFGHIJKLMNOPQRSTUVWXYZabcdefghijklmnopqrstuvwxyz0123456789+/")

\* base64_encode(in, len, buf) for len in 1..3: the len + 1 characters of buf
base64_encode(in) ==
  <<kBase64EncodeTable[in[1] \div 4 + 1],
    kBase64EncodeTable[(in[1] % 4) * 16 + (IF Len(in) > 1 THEN in[2] \div 16 ELSE 0) + 1]>>
    \o (IF Len(in) > 1
        THEN <<kBase64EncodeTable[(in[2] % 16) * 4
                                   + (IF Len(in) > 2 THEN in[3] \div 64 ELSE 0) + 1]>>
        ELSE <<>>)
    \o (IF Len(in) > 2 THEN <<kBase64EncodeTable[(in[3] % 64) + 1]>> ELSE <<>>)

\* the six bits a character of the alphabet stands for
Base64Val(ch) == (CHOOSE k \in 1..64 : kBase64EncodeTable[k] = ch) - 1

\* base64_decode(buf, len) for len in 2..4: the len - 1 bytes left in buf
base64_decode(buf) ==
  <<Base64Val(buf[1]) * 4 + Base64Val(buf[2]) \div 16>>
    \o (IF Len(buf) > 2
        THEN <<(Base64Val(buf[2]) % 16) * 16 + Base64Val(buf[3]) \div 4>> ELSE <<>>)
    \o (IF Len(buf) > 3
        THEN <<(Base64Val(buf[3]) % 4) * 64 + Base64Val(buf[4])>> ELSE <<>>)

\* a faulty variant of the loops of writeBase64: the remainder is written
\* without its last character
RECURSIVE FaultyBase64Text(_)
FaultyBase64Text(bytes) ==
  IF Len(bytes) >= 3
  THEN base64_encode(SubSeq(bytes, 1, 3)) \o FaultyBase64Text(SubSeq(bytes, 4, Len(bytes)))
  ELSE IF bytes # <<>> THEN SubSeq(base64_encode(bytes), 1, Len(bytes))
  ELSE <<>>

\* the loop of TJSONContext::writeBase64 and the remainder after it: what is
\* written between the quotes
RECURSIVE Base64Text(_)
Base64Text(bytes) ==
  IF Len(bytes) >= 3
  THEN base64_encode(SubSeq(bytes, 1, 3)) \o Base64Text(SubSeq(bytes, 4, Len(bytes)))
  ELSE IF bytes # <<>> THEN base64_encode(bytes)
  ELSE <<>>

\* TJSONContext::writeBase64, of context().  The SIZE_LIMIT throw is for
\* strings longer than 2^32-1.
CtxWriteBase64(p, str) ==
  Try(WriteNext(p),
      LAMBDA q : TransWrite(q, Ctx(q).tr, <<kJSONStringDelimiter>> \o Base64Text(str)
                                             \o <<kJSONStringDelimiter>>))

\* One pass through the loop of TJSONContext::readNumericChars; p.brk is set
\* by the break at a byte that is not numeric.
ReadNumericStep(p) ==
  Try(ReaderPeek(p), LAMBDA q : IF ~isJSONNumeric(q.ch) THEN [q EXCEPT !.brk = TRUE]
    ELSE Try(ReaderRead(q), LAMBDA q2 : [q2 EXCEPT !.str = Append(@, q.ch)]))

\* The loop of TJSONContext::readNumericChars after a pass
RECURSIVE ReadNumericLoop(_)
ReadNumericLoop(q) ==
  IF q.brk \/ ~Ok(q) THEN q ELSE ReadNumericLoop(ReadNumericStep(q))

\* TJSONContext::readNumericChars: the characters are left in p.str
ReadNumericChars(p) ==
  IF ~Ok(p) THEN p
  ELSE [ReadNumericLoop([p EXCEPT !.str = <<>>, !.brk = FALSE]) EXCEPT !.brk = FALSE]

\* a faulty variant of readInteger: the digits are read bare in every position
FaultyCtxReadInteger(p, ty) ==
  Try(ReadNext(p), LAMBDA q :
    Try(ReadNumericChars(q), LAMBDA q2 :
      IF ~LexicalCast(q2.str, ty).ok THEN Throw(q2, "INVALID_DATA")
      ELSE [q2 EXCEPT !.num = LexicalCast(q2.str, ty)]))

\* TJSONContext::readInteger<ty>: the number is left in p.num
CtxReadInteger(p, ty) ==
  Try(ReadNext(p), LAMBDA q :
    Try(ReadNumericChars(IF EscapeNum(Ctx(q))
                         THEN ReadSyntaxChar(q, kJSONStringDelimiter) ELSE q),
        LAMBDA q2 :
      IF ~LexicalCast(q2.str, ty).ok THEN Throw(q2, "INVALID_DATA")
      ELSE IF EscapeNum(Ctx(q))
           THEN ReadSyntaxChar([q2 EXCEPT !.num = LexicalCast(q2.str, ty)],
                               kJSONStringDelimiter)
      ELSE [q2 EXCEPT !.num = LexicalCast(q2.str, ty)]))

kThriftNan == B("NaN")
kThriftInfinity == B("Infinity")
kThriftNegativeInfinity == B("-Infinity")

\* A double is named by its shortest decimal text; NaN and the infinities by
\* the names above.
IsSpecial(num) == num \in {kThriftNan, kThriftInfinity, kThriftNegativeInfinity}

\* doubleToString: operator<< with 17 significant digits
doubleToString(d) ==
  CASE d = B("0.1") -> B("0.10000000000000001")
    [] d = B("1e22") -> B("1e+22")
    [] d = B("-2.5e-07") -> B("-2.4999999999999999e-07")
    [] OTHER -> d

\* stringToDouble: operator>> and the test str.bad() || !str.eof().  ok =
\* FALSE is the runtime_error.  Where the extraction fails at the end of the
\* text (an empty text, a sign alone) there is no error and the value is
\* whatever the library leaves in d.
stringToDouble(s) ==
  CASE s \in {B("0"), B("0.0"), B("-0")} -> [ok |-> TRUE, val |-> B("0")]
    [] s \in {B("1.5"), B("+1.5"), B("1.50"), B("15e-1")} -> [ok |-> TRUE, val |-> B("1.5")]
    [] s \in {B("-2"), B("-2.0")} -> [ok |-> TRUE, val |-> B("-2")]
    [] s \in {B("0.1"), B("0.10000000000000001")} -> [ok |-> TRUE, val |-> B("0.1")]
    [] s \in {B("1e22"), B("1e+22"), B("1E22")} -> [ok |-> TRUE, val |-> B("1e22")]
    [] s \in {B("-2.5e-07"), B("-2.4999999999999999e-07")} ->
         [ok |-> TRUE, val |-> B("-2.5e-07")]
    [] s \in {B(""), B("-"), B("+")} -> [ok |-> TRUE, val |-> B("unspecified")]
    [] OTHER -> [ok |-> FALSE, val |-> B("0")]

\* TJSONContext::writeDouble
CtxWriteDouble(p, num) ==
  Try(WriteNext(p),
      LAMBDA q : TransWrite(q, Ctx(q).tr,
                            IF IsSpecial(num) \/ EscapeNum(Ctx(q))
                            THEN <<kJSONStringDelimiter>>
                                   \o (IF IsSpecial(num) THEN num ELSE doubleToString(num))
                                   \o <<kJSONStringDelimiter>>
                            ELSE doubleToString(num)))

\* the conversion at the end of readDouble: the double is left in p.str
ToDouble(p) ==
  IF ~Ok(p) THEN p
  ELSE IF ~stringToDouble(p.str).ok THEN Throw(p, "INVALID_DATA")
  ELSE [p EXCEPT !.str = stringToDouble(p.str).val]

\* a faulty variant of readDouble: a quoted number is taken in any position
FaultyCtxReadDouble(p) ==
  Try(ReadNext(p), LAMBDA q :
  Try(ReaderPeek(q), LAMBDA q1 :
    IF q1.ch = kJSONStringDelimiter
    THEN Try(CtxReadString(q1, TRUE), LAMBDA q2 :
           IF IsSpecial(q2.str) THEN q2 ELSE ToDouble(q2))
    ELSE ToDouble(ReadNumericChars(IF EscapeNum(Ctx(q1))
                                   THEN ReadSyntaxChar(q1, kJSONStringDelimiter)
                                   ELSE q1))))

\* TJSONContext::readDouble: the double is left in p.str
CtxReadDouble(p) ==
  Try(ReadNext(p), LAMBDA q :
  Try(ReaderPeek(q), LAMBDA q1 :
    IF q1.ch = kJSONStringDelimiter
    THEN Try(CtxReadString(q1, TRUE), LAMBDA q2 :
           IF IsSpecial(q2.str) THEN q2
           ELSE IF ~EscapeNum(Ctx(q2)) THEN Throw(q2, "INVALID_DATA")
           ELSE ToDouble(q2))
    ELSE ToDouble(ReadNumericChars(IF EscapeNum(Ctx(q1))
                                   THEN ReadSyntaxChar(q1, kJSONStringDelimiter)
                                   ELSE q1))))

\* the nesting count of readObject after the bytes from..to of data
Nesting(data, from, to) ==
  1 + Cardinality({i \in from..to : data[i] = kJSONObjectStart})
    - Cardinality({i \in from..to : data[i] = kJSONObjectEnd})

\* TJSONContext::readObject: one object copied from the transport into
\* buffer_.  It is called while the envelope is scanned, on a context of
\* the transport.  reader_ holds no byte once the opening brace is read, so
\* the loop takes its bytes from the transport, up to and including the
\* first one at which nesting is 0 (a brace counts inside a string as well),
\* or up to the end of the data, where readAll throws.
CtxReadObject(p) ==
  Try(ReadSyntaxChar(ReadNext(p), kJSONObjectStart), LAMBDA q :
    Bind({j \in (q.trans.rpos + 1)..Len(q.trans.data) :
                 /\ q.trans.data[j] = kJSONObjectEnd
                 /\ Nesting(q.trans.data, q.trans.rpos + 1, j) = 0}, LAMBDA ends :
      Bind(IF ends = {} THEN Len(q.trans.data)
           ELSE CHOOSE j \in ends : \A i \in ends : j <= i, LAMBDA last :
        Bind(IF last = q.trans.rpos THEN q
             ELSE [SetCtx(q, [Ctx(q) EXCEPT !.data = q.trans.data[last]])
                     EXCEPT !.ch = q.trans.data[last]], LAMBDA r :
          Bind([TransWrite(r, "B", <<kJSONObjectStart>>
                                     \o SubSeq(q.trans.data, q.trans.rpos + 1, last))
                  EXCEPT !.trans.rpos = last], LAMBDA s :
            IF ends = {} THEN Throw(s, "END_OF_FILE") ELSE s)))))

\* the loop of TJSONContext::readBase64 that ignores padding: the length
\* left of tmp.  With tmp "==" the index i wraps below 0 and b[i] is read
\* outside tmp: undefined behaviour, reported as the length -1.
Unpadded(tmp) ==
  IF Len(tmp) < 2 THEN Len(tmp)
  ELSE IF tmp[Len(tmp)] # Ord("=") THEN Len(tmp)
  ELSE IF tmp[Len(tmp) - 1] # Ord("=") THEN Len(tmp) - 1
  ELSE IF Len(tmp) = 2 THEN 0 - 1
  ELSE Len(tmp) - 2

\* the loop of TJSONContext::readBase64 that decodes, and the remainder
\* after it
RECURSIVE Base64Bytes(_)
Base64Bytes(text) ==
  IF Len(text) >= 4
  THEN base64_decode(SubSeq(text, 1, 4)) \o Base64Bytes(SubSeq(text, 5, Len(text)))
  ELSE IF Len(text) > 1 THEN base64_decode(text)
  ELSE <<>>

\* TJSONContext::readBase64, of context(); the bytes are left in p.str
CtxReadBase64(p) ==
  Try(CtxReadString(p, FALSE), LAMBDA q :
    IF Unpadded(q.str) < 0 THEN Throw(q, "UB")
    ELSE [q EXCEPT !.str = Base64Bytes(SubSeq(q.str, 1, Unpadded(q.str)))])
----------------------------------------------------------------------------
(* TJSONRPCProtocol and TJSONProtocol: the message operations              *)

\* a faulty variant of TJSONRPCProtocol::writeMessageBegin: an exception is begun
\* without the "data" key
FaultyRpcWriteMessageBegin(p, name, messageType, seqid) ==
  Try(PushWrite([ResetBuffer([p EXCEPT !.mode = RW_TRANSPORT])
                   EXCEPT !.flags = JSONRPC_VERSION], "pair"), LAMBDA q1 :
  Try(CtxWriteString(q1, kJSONRPCName), LAMBDA q2 :
  Try(CtxWriteString(q2, kJSONRPCVersion), LAMBDA q :
    CASE messageType = TMessageType.T_CALL ->
           Try(CtxWriteString([q EXCEPT !.message.method = name, !.message.id = seqid,
                                        !.flags = JSONRPC_REQUEST],
                              kJSONRPCMethod), LAMBDA r1 :
           Try(CtxWriteString(r1, name), LAMBDA r2 :
             CtxWriteString(r2, kJSONRPCParams)))
      [] messageType = TMessageType.T_ONEWAY ->
           Try(CtxWriteString([q EXCEPT !.message.method = name,
                                        !.flags = JSONRPC_NOTIFICATION],
                              kJSONRPCMethod), LAMBDA r1 :
           Try(CtxWriteString(r1, name), LAMBDA r2 :
             CtxWriteString(r2, kJSONRPCParams)))
      [] messageType = TMessageType.T_REPLY ->
           CtxWriteString([q EXCEPT !.message.id = seqid, !.flags = JSONRPC_RESPONSE],
                          kJSONRPCResult)
      [] messageType = TMessageType.T_EXCEPTION ->
           Try(CtxWriteString([q EXCEPT !.message.id = seqid,
                                        !.message.error_code = 0 - 32000,
                                        !.message.error_message = B("Thrift exception"),
                                        !.flags = JSONRPC_ERROR],
                              kJSONRPCError), LAMBDA r1 :
           Try(PushWrite(r1, "pair"), LAMBDA r2 :
           Try(CtxWriteString(r2, kJSONRPCCode), LAMBDA r3 :
           Try(CtxWriteInteger(r3, r3.message.error_code), LAMBDA r4 :
           Try(CtxWriteString(r4, kJSONRPCMessage), LAMBDA r5 :
             CtxWriteString(r5, r5.message.error_message))))))
      [] OTHER ->
           Throw([ResetBuffer(q) EXCEPT !.flags = JSONRPC_UNSET], "NOT_IMPLEMENTED"))))

\* TJSONRPCProtocol::writeMessageBegin
RpcWriteMessageBegin(p, name, messageType, seqid) ==
  Try(PushWrite([ResetBuffer([p EXCEPT !.mode = RW_TRANSPORT])
                   EXCEPT !.flags = JSONRPC_VERSION], "pair"), LAMBDA q1 :
  Try(CtxWriteString(q1, kJSONRPCName), LAMBDA q2 :
  Try(CtxWriteString(q2, kJSONRPCVersion), LAMBDA q :
    CASE messageType = TMessageType.T_CALL ->
           Try(CtxWriteString([q EXCEPT !.message.method = name, !.message.id = seqid,
                                        !.flags = JSONRPC_REQUEST],
                              kJSONRPCMethod), LAMBDA r1 :
           Try(CtxWriteString(r1, name), LAMBDA r2 :
             CtxWriteString(r2, kJSONRPCParams)))
      [] messageType = TMessageType.T_ONEWAY ->
           Try(CtxWriteString([q EXCEPT !.message.method = name,
                                        !.flags = JSONRPC_NOTIFICATION],
                              kJSONRPCMethod), LAMBDA r1 :
           Try(CtxWriteString(r1, name), LAMBDA r2 :
             CtxWriteString(r2, kJSONRPCParams)))
      [] messageType = TMessageType.T_REPLY ->
           CtxWriteString([q EXCEPT !.message.id = seqid, !.flags = JSONRPC_RESPONSE],
                          kJSONRPCResult)
      [] messageType = TMessageType.T_EXCEPTION ->
           Try(CtxWriteString([q EXCEPT !.message.id = seqid,
                                        !.message.error_code = 0 - 32000,
                                        !.message.error_message = B("Thrift exception"),
                                        !.flags = JSONRPC_ERROR],
                              kJSONRPCError), LAMBDA r1 :
           Try(PushWrite(r1, "pair"), LAMBDA r2 :
           Try(CtxWriteString(r2, kJSONRPCCode), LAMBDA r3 :
           Try(CtxWriteInteger(r3, r3.message.error_code), LAMBDA r4 :
           Try(CtxWriteString(r4, kJSONRPCMessage), LAMBDA r5 :
           Try(CtxWriteString(r5, r5.message.error_message), LAMBDA r6 :
             CtxWriteString(r6, kJSONRPCData)))))))
      [] OTHER ->
           Throw([ResetBuffer(q) EXCEPT !.flags = JSONRPC_UNSET], "NOT_IMPLEMENTED"))))

\* a faulty variant of TJSONRPCProtocol::writeMessageEnd: the default branch
\* throws and leaves buffer_ and flags_ as they are
FaultyRpcWriteMessageEnd(p) ==
  Try(CASE p.flags \in {JSONRPC_REQUEST, JSONRPC_FULL_REQUEST, JSONRPC_RESPONSE} ->
             Try(CtxWriteString(p, kJSONRPCId), LAMBDA q1 :
               CtxWriteInteger(q1, q1.message.id))
        [] p.flags \in {JSONRPC_ERROR, JSONRPC_FULL_ERROR} ->
             Try(PopWrite(p), LAMBDA q1 :
             Try(CtxWriteString(q1, kJSONRPCId), LAMBDA q2 :
               CtxWriteInteger(q2, q2.message.id)))
        [] p.flags = JSONRPC_NOTIFICATION -> p
        [] OTHER -> Throw(p, "INVALID_DATA"),
      LAMBDA q :
    Try(PopWrite(q), LAMBDA q3 : [ResetBuffer(q3) EXCEPT !.flags = JSONRPC_UNSET]))

\* TJSONRPCProtocol::writeMessageEnd
RpcWriteMessageEnd(p) ==
  Try(CASE p.flags \in {JSONRPC_REQUEST, JSONRPC_FULL_REQUEST, JSONRPC_RESPONSE} ->
             Try(CtxWriteString(p, kJSONRPCId), LAMBDA q1 :
               CtxWriteInteger(q1, q1.message.id))
        [] p.flags \in {JSONRPC_ERROR, JSONRPC_FULL_ERROR} ->
             Try(PopWrite(p), LAMBDA q1 :
             Try(CtxWriteString(q1, kJSONRPCId), LAMBDA q2 :
               CtxWriteInteger(q2, q2.message.id)))
        [] p.flags = JSONRPC_NOTIFICATION -> p
        [] OTHER -> Throw([ResetBuffer(p) EXCEPT !.flags = JSONRPC_UNSET], "INVALID_DATA"),
      LAMBDA q :
    Try(PopWrite(q), LAMBDA q3 : [ResetBuffer(q3) EXCEPT !.flags = JSONRPC_UNSET]))

\* flags_ = operator|(flags_, f), after the read before it returned
SetFlag(p, f) == IF Ok(p) THEN [p EXCEPT !.flags = FlagOr(@, f)] ELSE p

\* TJSONRPCProtocol::readJSONRPCField; an "error" member recurses into the
\* members of its object
RECURSIVE RpcReadJSONRPCField(_)
RECURSIVE RpcErrorFields(_)
RECURSIVE RpcErrorLoop(_)
RpcReadJSONRPCField(p) ==
  Try(CtxReadString(p, FALSE), LAMBDA k : CASE k.str = kJSONRPCName ->
                Try(CtxReadString(k, FALSE), LAMBDA q :
                  IF q.str # kJSONRPCVersion THEN Throw(q, "BAD_VERSION")
                  ELSE SetFlag(q, JSONRPC_VERSION))
           [] k.str = kJSONRPCMethod ->
                Try(CtxReadString(k, FALSE), LAMBDA q :
                  SetFlag([q EXCEPT !.message.method = q.str], JSONRPC_METHOD))
           [] k.str = kJSONRPCId ->
                Try(CtxReadInteger(k, "int32"), LAMBDA q :
                  SetFlag([q EXCEPT !.message.id = q.num.val], JSONRPC_ID))
           [] k.str = kJSONRPCParams -> SetFlag(CtxReadObject(k), JSONRPC_PARAMS)
           [] k.str = kJSONRPCResult -> SetFlag(CtxReadObject(k), JSONRPC_RESULT)
           [] k.str = kJSONRPCError ->
                Try(PushRead(k, "pair"), LAMBDA q : Try(RpcErrorFields(q), PopRead))
           [] k.str = kJSONRPCCode ->
                Try(CtxReadInteger(k, "int32"), LAMBDA q :
                  SetFlag([q EXCEPT !.message.error_code = q.num.val], JSONRPC_ERR_CODE))
           [] k.str = kJSONRPCMessage ->
                Try(CtxReadString(k, FALSE), LAMBDA q :
                  SetFlag([q EXCEPT !.message.error_message = q.str], JSONRPC_ERR_MSG))
           [] k.str = kJSONRPCData -> SetFlag(CtxReadObject(k), JSONRPC_ERR_DATA)
           [] OTHER -> Throw(k, "INVALID_DATA"))

\* One pass through do { readJSONRPCField(); } while (context()->peek() !=
\* kJSONObjectEnd); p.brk is set when the condition ends the loop.
RpcErrorPass(p) ==
  Try(RpcReadJSONRPCField(p), LAMBDA f :
    Try(ReaderPeek(f), LAMBDA q :
      IF q.ch = kJSONObjectEnd THEN [q EXCEPT !.brk = TRUE] ELSE q))

\* the loop over the members of the error object after a pass
RpcErrorLoop(q) ==
  IF q.brk \/ ~Ok(q) THEN q ELSE RpcErrorLoop(RpcErrorPass(q))

RpcErrorFields(p) ==
  [RpcErrorLoop(RpcErrorPass(p)) EXCEPT !.brk = FALSE]

\* One pass through while (true) { if (context()->peek() == kJSONObjectEnd)
\* break; readJSONRPCField(); }
RpcEnvelopePass(p) ==
  Try(ReaderPeek(p), LAMBDA q : IF q.ch = kJSONObjectEnd THEN [q EXCEPT !.brk = TRUE]
    ELSE RpcReadJSONRPCField(q))

\* the loop over the members of the envelope after a pass
RECURSIVE RpcEnvelopeLoop(_)
RpcEnvelopeLoop(q) ==
  IF q.brk \/ ~Ok(q) THEN q ELSE RpcEnvelopeLoop(RpcEnvelopePass(q))

RpcEnvelopeFields(p) ==
  [RpcEnvelopeLoop(RpcEnvelopePass(p)) EXCEPT !.brk = FALSE]

\* a faulty variant of the empty object: the closing brace is forgotten
FaultyEmptyObject(p, bare) ==
  IF p.flags = bare THEN TransWrite(p, "B", <<kJSONObjectStart>>) ELSE p

\* "JSON context needs an empty object if params left out": when flags_ is
\* the shape without the payload member, { and } are written to buffer_
EmptyObject(p, bare) ==
  IF p.flags = bare
  THEN TransWrite(TransWrite(p, "B", <<kJSONObjectStart>>), "B", <<kJSONObjectEnd>>)
  ELSE p

\* TJSONRPCProtocol::readMessageBegin: the outputs are left in p.name,
\* p.mtype and p.seqid
RpcReadMessageBegin(p) ==
  Try(PushRead([ResetBuffer(p) EXCEPT !.mode = RW_TRANSPORT, !.flags = JSONRPC_UNSET],
               "pair"), LAMBDA q1 :
  Try(RpcEnvelopeFields(q1), LAMBDA q2 :
  Try(PopRead(q2), LAMBDA q :
      CASE q.flags \in {JSONRPC_REQUEST, JSONRPC_FULL_REQUEST} ->
                [EmptyObject(q, JSONRPC_REQUEST)
                   EXCEPT !.name = q.message.method, !.mtype = TMessageType.T_CALL,
                          !.seqid = q.message.id, !.mode = RW_BUFFERED]
           [] q.flags \in {JSONRPC_NOTIFICATION, JSONRPC_FULL_NOTIFICATION} ->
                [EmptyObject(q, JSONRPC_NOTIFICATION)
                   EXCEPT !.name = q.message.method, !.mtype = TMessageType.T_ONEWAY,
                          !.seqid = 0, !.mode = RW_BUFFERED]
           [] q.flags \in {JSONRPC_ERROR, JSONRPC_FULL_ERROR, JSONRPC_RESPONSE} ->
                [EmptyObject(q, JSONRPC_ERROR)
                   EXCEPT !.name = <<>>,
                          !.mtype = IF q.flags = JSONRPC_RESPONSE
                                    THEN TMessageType.T_REPLY
                                    ELSE TMessageType.T_EXCEPTION,
                          !.seqid = q.message.id, !.mode = RW_BUFFERED]
           [] OTHER ->
                Throw([ResetBuffer(q) EXCEPT !.flags = JSONRPC_UNSET], "INVALID_DATA"))))

\* a faulty variant of TJSONProtocol::writeMessageBegin: the seqid ahead of
\* the message type
FaultyBaseWriteMessageBegin(p, name, messageType, seqid) ==
  Try(PushWrite(p, "list"), LAMBDA q1 :
  Try(CtxWriteInteger(q1, kThriftVersion1), LAMBDA q2 :
  Try(CtxWriteString(q2, name), LAMBDA q3 :
  Try(CtxWriteInteger(q3, seqid), LAMBDA q4 :
    CtxWriteInteger(q4, messageType)))))

\* TJSONProtocol::writeMessageBegin
BaseWriteMessageBegin(p, name, messageType, seqid) ==
  Try(PushWrite(p, "list"), LAMBDA q1 :
  Try(CtxWriteInteger(q1, kThriftVersion1), LAMBDA q2 :
  Try(CtxWriteString(q2, name), LAMBDA q3 :
  Try(CtxWriteInteger(q3, messageType), LAMBDA q4 :
    CtxWriteInteger(q4, seqid)))))

\* TJSONProtocol::readMessageBegin: the outputs are left in p.name, p.mtype
\* and p.seqid.  messageType = (TMessageType)tmpVal of a value above 2^31-1
\* is the message type -1 of the model.
BaseReadMessageBegin(p) ==
  Try(CtxReadInteger(PushRead(p, "list"), "uint64"), LAMBDA q1 :
    IF q1.num.big \/ q1.num.val # kThriftVersion1 THEN Throw(q1, "BAD_VERSION")
    ELSE Try(CtxReadString(q1, FALSE), LAMBDA q2 :
      Try(CtxReadInteger([q2 EXCEPT !.name = q2.str], "uint64"), LAMBDA q3 :
        Try(CtxReadInteger([q3 EXCEPT !.mtype = IF q3.num.big THEN 0 - 1
                                                ELSE q3.num.val], "uint64"),
            LAMBDA q4 :
          IF q4.num.big THEN Throw(q4, "SIZE_LIMIT")
          ELSE [q4 EXCEPT !.seqid = q4.num.val]))))

----------------------------------------------------------------------------
(* The caller.  A Thrift value is a tree of nodes; generated code writes   *)
(* and reads it by the call sequences WriteOps and ReadOps.                *)

MaxFields == 2

Node(t) == [t |-> t, i |-> 0, s |-> <<>>, kt |-> "T_STOP", et |-> "T_STOP", sub |-> <<>>]
I32V(i32) == [Node("T_I32") EXCEPT !.i = i32]
StrV(str) == [Node("T_STRING") EXCEPT !.s = str]
RecV(fields) == [Node("T_STRUCT") EXCEPT !.sub = fields]
FieldV(fieldId, v) == [Node("FIELD") EXCEPT !.i = fieldId, !.et = v.t, !.sub = <<v>>]
LstV(elemType, elems) == [Node("T_LIST") EXCEPT !.et = elemType, !.sub = elems]
\* entries is key, value, key, value, ...
MapV(keyType, valType, entries) ==
  [Node("T_MAP") EXCEPT !.kt = keyType, !.et = valType, !.sub = entries]

\* one call: its name and its arguments (writes) or the values the caller
\* expects back (reads)
\* a call: its name, its arguments and, where the call starts an element of
\* the context it is made in, the index of that element
Op(op) ==
  [op |-> op, t |-> "T_STOP", kt |-> "T_STOP", i |-> 0, s |-> <<>>, m |-> 0, tick |-> 0 - 1]

RECURSIVE WriteOps(_)
RECURSIVE WriteOpsSeq(_)
WriteOpsSeq(vs) ==
  IF vs = <<>> THEN <<>> ELSE WriteOps(Head(vs)) \o WriteOpsSeq(Tail(vs))

WriteOps(v) ==
  CASE v.t = "T_I32" -> <<[Op("writeI32") EXCEPT !.i = v.i]>>
    [] v.t = "T_STRING" -> <<[Op("writeString") EXCEPT !.s = v.s]>>
    [] v.t = "T_STRUCT" ->
         <<Op("writeStructBegin")>> \o WriteOpsSeq(v.sub)
           \o <<Op("writeFieldStop"), Op("writeStructEnd")>>
    [] v.t = "FIELD" ->
         <<[Op("writeFieldBegin") EXCEPT !.t = v.et, !.i = v.i]>> \o WriteOpsSeq(v.sub)
           \o <<Op("writeFieldEnd")>>
    [] v.t = "T_LIST" ->
         <<[Op("writeListBegin") EXCEPT !.t = v.et, !.i = Len(v.sub)]>>
           \o WriteOpsSeq(v.sub) \o <<Op("writeListEnd")>>
    [] v.t = "T_MAP" ->
         <<[Op("writeMapBegin") EXCEPT !.kt = v.kt, !.t = v.et, !.i = Len(v.sub) \div 2]>>
           \o WriteOpsSeq(v.sub) \o <<Op("writeMapEnd")>>

RECURSIVE ReadOps(_)
RECURSIVE ReadOpsSeq(_)
ReadOpsSeq(vs) ==
  IF vs = <<>> THEN <<>> ELSE ReadOps(Head(vs)) \o ReadOpsSeq(Tail(vs))

ReadOps(v) ==
  CASE v.t = "T_I32" -> <<[Op("readI32") EXCEPT !.i = v.i]>>
    [] v.t = "T_STRING" -> <<[Op("readString") EXCEPT !.s = v.s]>>
    [] v.t = "T_STRUCT" ->
         <<Op("readStructBegin")>> \o ReadOpsSeq(v.sub)
           \o <<Op("readFieldBegin"), Op("readStructEnd")>>
    [] v.t = "FIELD" ->
         <<[Op("readFieldBegin") EXCEPT !.t = v.et, !.i = v.i]>> \o ReadOpsSeq(v.sub)
           \o <<Op("readFieldEnd")>>
    [] v.t = "T_LIST" ->
         <<[Op("readListBegin") EXCEPT !.t = v.et, !.i = Len(v.sub)]>>
           \o ReadOpsSeq(v.sub) \o <<Op("readListEnd")>>
    [] v.t = "T_MAP" ->
         <<[Op("readMapBegin") EXCEPT !.kt = v.kt, !.t = v.et, !.i = Len(v.sub) \div 2]>>
           \o ReadOpsSeq(v.sub) \o <<Op("readMapEnd")>>

\* what a call hands back to the caller
Ret == [t |-> "T_STOP", kt |-> "T_STOP", i |-> 0, s |-> <<>>, m |-> 0]
Expected(call) == [t |-> call.t, kt |-> call.kt, i |-> call.i, s |-> call.s, m |-> call.m]

\* the values a field, an element, a key or a map value takes
FieldVals ==
  { I32V(0 - 7),
    StrV(B("a\"")),
    StrV(B("}")),
    RecV(<<FieldV(1, I32V(21))>>),
    LstV("T_I32", <<I32V(1), I32V(2)>>),
    MapV("T_I32", "T_STRING", <<I32V(3), StrV(B("b"))>>),
    MapV("T_I32", "T_I32", <<I32V(3), I32V(4), I32V(0 - 5), I32V(6)>>),
    MapV("T_STRING", "T_LIST",
         <<StrV(B("k")), LstV("T_STRUCT", <<RecV(<<FieldV(2, StrV(<<>>))>>), RecV(<<>>)>>)>>) }

\* the values of the fields after the first
MoreVals == { I32V(55), StrV(B("{")) }

\* the structs a message carries: up to MaxFields fields, the n-th with id n-1
RECURSIVE FieldSeqs(_)
FieldSeqs(n) ==
  IF n = 0 THEN {<<>>}
  ELSE {<<>>} \cup { Append(fs, FieldV(Len(fs), v)) :
                       fs \in {f \in FieldSeqs(n - 1) : Len(f) = n - 1},
                       v \in IF n = 1 THEN FieldVals ELSE MoreVals }
                \cup FieldSeqs(n - 1)

Payloads == { RecV(fs) : fs \in FieldSeqs(MaxFields) }

Names == {B("go"), B("a\"")}
SeqIds == {0, 999, 0 - 3}
MsgTypes == {TMessageType.T_CALL, TMessageType.T_REPLY, TMessageType.T_EXCEPTION,
             TMessageType.T_ONEWAY}
\* what the uninitialised members of JSONRPCMessage may hold
Garbage == {0, 0 - 1}

----------------------------------------------------------------------------
(* The instance and its operations as actions.  The struct, field,         *)
(* container and primitive operations of TJSONRPCProtocol and of           *)
(* TJSONProtocol are the same code on context() and contexts().            *)

\* the instance as an operation finds it
Instance ==
  [codec |-> codec, mode |-> mode_, flags |-> flags_, message |-> message_,
   buffer |-> buffer_, trans |-> trans, tctx |-> transport_contexts_,
   bctx |-> buffer_contexts_,
   err |-> "none", ch |-> 0, str |-> <<>>, codeunits |-> <<>>, brk |-> FALSE,
   num |-> NoNum, cp |-> 0,
   ty |-> "T_STOP", kty |-> "T_STOP", fid |-> 0, name |-> <<>>, mtype |-> 0, seqid |-> 0]

Calls(op) == script # <<>> /\ Head(script).op = op

\* the call returns, or throws, having left the instance as q.  The caller
\* notes what it got back and, to tell what the call did, the length of the
\* transport, the read position of the transport in use and the depth of the
\* context stack in use.  A caller whose call threw makes no further call,
\* but for the caller of a session, who goes on to the next message after a
\* message begin that threw
Return(q, ret) ==
  /\ mode_' = q.mode
  /\ flags_' = q.flags
  /\ message_' = q.message
  /\ buffer_' = q.buffer
  /\ trans' = q.trans
  /\ transport_contexts_' = q.tctx
  /\ buffer_contexts_' = q.bctx
  /\ done' = Append(done, [call |-> Head(script), err |-> q.err, ret |-> ret,
                           len |-> Len(q.trans.data),
                           rpos |-> IF Cur(q) = "T" THEN q.trans.rpos ELSE q.buffer.rpos,
                           depth |-> Len(Stk(q))])
  /\ script' = IF Ok(q) \/ (scen.kind \in {"reread", "rewrite", "endafterread"} /\ done = <<>>)
               THEN Tail(script) ELSE <<>>
  /\ UNCHANGED <<codec, scen>>

\* TJSONRPCProtocol::TJSONRPCProtocol / TJSONProtocol::TJSONProtocol on the
\* transport tr; id and error_code of message_ are not initialised
Constructed(tr, garbage) ==
  /\ mode_ = RW_TRANSPORT
  /\ flags_ = JSONRPC_UNSET
  /\ message_ = [method |-> <<>>, id |-> garbage, error_code |-> garbage,
                 error_message |-> <<>>]
  /\ buffer_ = EmptyTransport
  /\ trans = tr
  /\ transport_contexts_ = NewContextStack("T")
  /\ buffer_contexts_ = NewContextStack("B")

\* a second instance is constructed on the transport, to read what the first
\* wrote
Construct ==
  /\ Calls("construct")
  /\ \E garbage \in Garbage :
       Return([Instance EXCEPT !.mode = RW_TRANSPORT, !.flags = JSONRPC_UNSET,
                               !.message = [method |-> <<>>, id |-> garbage,
                                            error_code |-> garbage,
                                            error_message |-> <<>>],
                               !.buffer = EmptyTransport,
                               !.tctx = NewContextStack("T"),
                               !.bctx = NewContextStack("B")], Ret)

WriteMessageBegin ==
  /\ Calls("writeMessageBegin")
  /\ Return(IF codec = "rpc"
            THEN RpcWriteMessageBegin(Instance, Head(script).s, Head(script).m,
                                      Head(script).i)
            ELSE BaseWriteMessageBegin(Instance, Head(script).s, Head(script).m,
                                       Head(script).i), Ret)

\* TJSONProtocol::writeMessageEnd is contexts_.popWrite()
WriteMessageEnd ==
  /\ Calls("writeMessageEnd")
  /\ Return(IF codec = "rpc" THEN RpcWriteMessageEnd(Instance) ELSE PopWrite(Instance), Ret)

WriteStructBegin ==
  /\ Calls("writeStructBegin")
  /\ Return(PushWrite(Instance, "pair"), Ret)

WriteStructEnd ==
  /\ Calls("writeStructEnd")
  /\ Return(PopWrite(Instance), Ret)

WriteFieldBegin ==
  /\ Calls("writeFieldBegin")
  /\ Return(Try(CtxWriteInteger(Instance, Head(script).i), LAMBDA q1 :
            Try(PushWrite(q1, "pair"), LAMBDA q2 :
              CtxWriteTypeID(q2, Head(script).t))), Ret)

WriteFieldEnd ==
  /\ Calls("writeFieldEnd")
  /\ Return(PopWrite(Instance), Ret)

WriteFieldStop ==
  /\ Calls("writeFieldStop")
  /\ Return(Instance, Ret)

WriteMapBegin ==
  /\ Calls("writeMapBegin")
  /\ Return(Try(PushWrite(Instance, "list"), LAMBDA q1 :
            Try(CtxWriteTypeID(q1, Head(script).kt), LAMBDA q2 :
            Try(CtxWriteTypeID(q2, Head(script).t), LAMBDA q3 :
            Try(CtxWriteInteger(q3, Head(script).i), LAMBDA q4 :
              PushWrite(q4, "pair"))))), Ret)

\* a faulty variant of writeMapEnd: the object of the entries is closed, the
\* array is not
FaultyWriteMapEnd ==
  /\ Calls("writeMapEnd")
  /\ Return(PopWrite(Instance), Ret)

WriteMapEnd ==
  /\ Calls("writeMapEnd")
  /\ Return(Try(PopWrite(Instance), PopWrite), Ret)

WriteListBegin ==
  /\ Calls("writeListBegin")
  /\ Return(Try(PushWrite(Instance, "list"), LAMBDA q1 :
            Try(CtxWriteTypeID(q1, Head(script).t), LAMBDA q2 :
              CtxWriteInteger(q2, Head(script).i))), Ret)

WriteListEnd ==
  /\ Calls("writeListEnd")
  /\ Return(PopWrite(Instance), Ret)

WriteI32 ==
  /\ Calls("writeI32")
  /\ Return(CtxWriteInteger(Instance, Head(script).i), Ret)

WriteString ==
  /\ Calls("writeString")
  /\ Return(CtxWriteString(Instance, Head(script).s), Ret)

ReadMessageBegin ==
  /\ Calls("readMessageBegin")
  /\ Bind(IF codec = "rpc" THEN RpcReadMessageBegin(Instance)
          ELSE BaseReadMessageBegin(Instance),
          LAMBDA q : Return(q, [Ret EXCEPT !.s = q.name, !.m = q.mtype, !.i = q.seqid]))

\* TJSONRPCProtocol::readMessageEnd; TJSONProtocol::readMessageEnd is
\* contexts_.popRead()
ReadMessageEnd ==
  /\ Calls("readMessageEnd")
  /\ Return(IF codec = "rpc"
            THEN [ResetBuffer(Instance) EXCEPT !.flags = JSONRPC_UNSET,
                                               !.mode = RW_TRANSPORT]
            ELSE PopRead(Instance), Ret)

ReadStructBegin ==
  /\ Calls("readStructBegin")
  /\ Return(PushRead(Instance, "pair"), Ret)

ReadStructEnd ==
  /\ Calls("readStructEnd")
  /\ Return(PopRead(Instance), Ret)

\* a faulty variant of readFieldBegin: the byte is read, not peeked at
FaultyReadFieldBegin ==
  /\ Calls("readFieldBegin")
  /\ Bind(Try(ReaderRead(Instance), LAMBDA q :
            IF q.ch = kJSONObjectEnd THEN [q EXCEPT !.ty = "T_STOP"]
            ELSE Try(CtxReadInteger(q, "uint64"), LAMBDA q1 :
              IF q1.num.big \/ q1.num.val > 32767 THEN Throw(q1, "SIZE_LIMIT")
              ELSE Try(PushRead([q1 EXCEPT !.fid = q1.num.val], "pair"), CtxReadTypeID))),
          LAMBDA r : Return(r, [Ret EXCEPT !.t = r.ty, !.i = r.fid]))

ReadFieldBegin ==
  /\ Calls("readFieldBegin")
  /\ Bind(Try(ReaderPeek(Instance), LAMBDA q :
            IF q.ch = kJSONObjectEnd THEN [q EXCEPT !.ty = "T_STOP"]
            ELSE Try(CtxReadInteger(q, "uint64"), LAMBDA q1 :
              IF q1.num.big \/ q1.num.val > 32767 THEN Throw(q1, "SIZE_LIMIT")
              ELSE Try(PushRead([q1 EXCEPT !.fid = q1.num.val], "pair"), CtxReadTypeID))),
          LAMBDA r : Return(r, [Ret EXCEPT !.t = r.ty, !.i = r.fid]))

ReadFieldEnd ==
  /\ Calls("readFieldEnd")
  /\ Return(PopRead(Instance), Ret)

ReadMapBegin ==
  /\ Calls("readMapBegin")
  /\ Bind(Try(PushRead(Instance, "list"), LAMBDA q0 :
            Try(CtxReadTypeID(q0), LAMBDA q1 :
            Try(CtxReadTypeID([q1 EXCEPT !.kty = q1.ty]), LAMBDA q2 :
            Try(CtxReadInteger(q2, "uint64"), LAMBDA q3 :
              IF q3.num.over32 THEN Throw(q3, "SIZE_LIMIT")
              ELSE PushRead(q3, "pair"))))),
          LAMBDA r : Return(r, [Ret EXCEPT !.kt = r.kty, !.t = r.ty, !.i = r.num.val]))

ReadMapEnd ==
  /\ Calls("readMapEnd")
  /\ Return(Try(PopRead(Instance), PopRead), Ret)

ReadListBegin ==
  /\ Calls("readListBegin")
  /\ Bind(Try(PushRead(Instance, "list"), LAMBDA q1 :
            Try(CtxReadTypeID(q1), LAMBDA q2 :
            Try(CtxReadInteger(q2, "uint64"), LAMBDA q :
              IF q.num.over32 THEN Throw(q, "SIZE_LIMIT") ELSE q))),
          LAMBDA r : Return(r, [Ret EXCEPT !.t = r.ty, !.i = r.num.val]))

ReadListEnd ==
  /\ Calls("readListEnd")
  /\ Return(PopRead(Instance), Ret)

ReadSetBegin ==
  /\ Calls("readSetBegin")
  /\ Bind(Try(PushRead(Instance, "list"), LAMBDA q1 :
            Try(CtxReadTypeID(q1), LAMBDA q2 :
            Try(CtxReadInteger(q2, "uint64"), LAMBDA q :
              IF q.num.over32 THEN Throw(q, "SIZE_LIMIT") ELSE q))),
          LAMBDA r : Return(r, [Ret EXCEPT !.t = r.ty, !.i = r.num.val]))

ReadI32 ==
  /\ Calls("readI32")
  /\ Bind(CtxReadInteger(Instance, "int32"),
          LAMBDA q : Return(q, [Ret EXCEPT !.i = q.num.val]))

ReadString ==
  /\ Calls("readString")
  /\ Bind(CtxReadString(Instance, FALSE),
          LAMBDA q : Return(q, [Ret EXCEPT !.s = q.str]))

WriteBinary ==
  /\ Calls("writeBinary")
  /\ Return(CtxWriteBase64(Instance, Head(script).s), Ret)

ReadBinary ==
  /\ Calls("readBinary")
  /\ Bind(CtxReadBase64(Instance),
          LAMBDA q : Return(q, [Ret EXCEPT !.s = q.str]))


\* peek() and read() of the reader of context(), for the byte returned
Peek ==
  /\ Calls("peek")
  /\ Bind(ReaderPeek(Instance), LAMBDA q : Return(q, [Ret EXCEPT !.i = q.ch]))

Read ==
  /\ Calls("read")
  /\ Bind(ReaderRead(Instance), LAMBDA q : Return(q, [Ret EXCEPT !.i = q.ch]))

ReadI16 ==
  /\ Calls("readI16")
  /\ Bind(CtxReadInteger(Instance, "int16"),
          LAMBDA q : Return(q, [Ret EXCEPT !.i = q.num.val]))

\* a faulty variant of the narrowing: the value is kept
FaultyNarrow8(tmp) == tmp

\* (int8_t)tmp
Narrow8(tmp) == ((tmp + 128) % 256) - 128

WriteByte ==
  /\ Calls("writeByte")
  /\ Return(CtxWriteInteger(Instance, Head(script).i), Ret)

\* readByte: where assert(tmp < 256) is compiled in a tmp of 256 or more
\* aborts the program (the outcome "ABORT"); with NDEBUG it is narrowed as
\* any other
ReadByte ==
  /\ Calls("readByte")
  /\ Bind(CtxReadInteger(Instance, "int16"), LAMBDA q :
       \/ Return(q, [Ret EXCEPT !.i = IF Ok(q) THEN Narrow8(q.num.val) ELSE 0])
       \/ /\ Ok(q) /\ ~(q.num.val < 256)
          /\ Return(Throw(q, "ABORT"), Ret))

WriteDouble ==
  /\ Calls("writeDouble")
  /\ Return(CtxWriteDouble(Instance, Head(script).s), Ret)

ReadDouble ==
  /\ Calls("readDouble")
  /\ Bind(CtxReadDouble(Instance), LAMBDA q : Return(q, [Ret EXCEPT !.s = q.str]))
----------------------------------------------------------------------------
(* Writing a message and reading it back                                   *)

Scenario(kind, cdc) ==
  [kind |-> kind, codec |-> cdc, m |-> 0, s |-> <<>>, i |-> 0,
   payload |-> RecV(<<>>), mem |-> <<>>, ver |-> <<>>, pre |-> <<>>,
   outer |-> "bare", at |-> 0, byte |-> 0, op |-> "", open |-> FALSE, close |-> FALSE,
   next |-> <<>>]

\* the writer's calls, then the reader's on what the writer sent
RoundTripScript(sc) ==
  <<[Op("writeMessageBegin") EXCEPT !.s = sc.s, !.m = sc.m, !.i = sc.i]>>
    \o WriteOps(sc.payload)
    \o <<Op("writeMessageEnd"), Op("construct"),
         [Op("readMessageBegin") EXCEPT !.s = sc.s, !.m = sc.m, !.i = sc.i]>>
    \o ReadOps(sc.payload)
    \o <<Op("readMessageEnd")>>

RoundTrips ==
  { [Scenario("roundtrip", cdc) EXCEPT !.m = m, !.s = s, !.i = i, !.payload = pl] :
      cdc \in {"rpc", "base"}, m \in MsgTypes, s \in Names, i \in SeqIds, pl \in Payloads }

Init ==
  /\ scen \in RoundTrips
  /\ codec = scen.codec
  /\ \E garbage \in Garbage : Constructed(EmptyTransport, garbage)
  /\ script = RoundTripScript(scen)
  /\ done = <<>>

Next ==
  \/ Construct
  \/ WriteMessageBegin \/ WriteMessageEnd
  \/ WriteStructBegin \/ WriteStructEnd
  \/ WriteFieldBegin \/ WriteFieldEnd \/ WriteFieldStop
  \/ WriteMapBegin \/ WriteMapEnd
  \/ WriteListBegin \/ WriteListEnd
  \/ WriteI32 \/ WriteString
  \/ ReadMessageBegin \/ ReadMessageEnd
  \/ ReadStructBegin \/ ReadStructEnd
  \/ ReadFieldBegin \/ ReadFieldEnd
  \/ ReadMapBegin \/ ReadMapEnd
  \/ ReadListBegin \/ ReadListEnd
  \/ ReadI32 \/ ReadString

Spec == Init /\ [][Next]_vars

----------------------------------------------------------------------------
(* The wire format, as the specification of the codecs states it.  These   *)
(* definitions are the yardstick the output of the writers is held         *)
(* against, and they produce the bytes a reader is fed.                    *)

\* a string between quotes, quote and backslash escaped
RECURSIVE Escaped(_)
Escaped(str) ==
  IF str = <<>> THEN <<>>
  ELSE IF Len(str) = 1
       THEN IF str[1] \in {kJSONStringDelimiter, kJSONBackslash}
            THEN <<kJSONBackslash, str[1]>> ELSE str
  ELSE Escaped(SubSeq(str, 1, Len(str) \div 2))
         \o Escaped(SubSeq(str, Len(str) \div 2 + 1, Len(str)))

Quoted(str) == <<kJSONStringDelimiter>> \o Escaped(str) \o <<kJSONStringDelimiter>>

TypeTag ==
  [T_I32 |-> B("i32"), T_STRING |-> B("str"), T_STRUCT |-> B("rec"),
   T_LIST |-> B("lst"), T_MAP |-> B("map")]

\* a value: a struct is {"<id>":{"<tag>":<value>},...}, a list is
\* ["<tag>",<size>,<elem>,...], a map is ["<tag>","<tag>",<size>,{<key>:<value>,...}]
\* with integer keys between quotes
RECURSIVE Json(_)
RECURSIVE JsonFields(_)
RECURSIVE JsonElems(_)
RECURSIVE JsonEntries(_)
Json(v) ==
  CASE v.t = "T_I32" -> IntToStr(v.i)
    [] v.t = "T_STRING" -> Quoted(v.s)
    [] v.t = "T_STRUCT" -> <<kJSONObjectStart>> \o JsonFields(v.sub) \o <<kJSONObjectEnd>>
    [] v.t = "T_LIST" ->
         <<kJSONArrayStart>> \o Quoted(TypeTag[v.et]) \o <<kJSONElemSeparator>> \o NatToStr(Len(v.sub))
           \o JsonElems(v.sub) \o <<kJSONArrayEnd>>
    [] v.t = "T_MAP" ->
         <<kJSONArrayStart>> \o Quoted(TypeTag[v.kt]) \o <<kJSONElemSeparator>> \o Quoted(TypeTag[v.et]) \o <<kJSONElemSeparator>>
           \o NatToStr(Len(v.sub) \div 2) \o <<kJSONElemSeparator, kJSONObjectStart>> \o JsonEntries(v.sub) \o <<kJSONObjectEnd, kJSONArrayEnd>>

JsonFields(fs) ==
  IF fs = <<>> THEN <<>>
  ELSE Quoted(NatToStr(Head(fs).i)) \o <<kJSONPairSeparator, kJSONObjectStart>> \o Quoted(TypeTag[Head(fs).et]) \o <<kJSONPairSeparator>>
         \o Json(Head(fs).sub[1]) \o <<kJSONObjectEnd>>
         \o (IF Len(fs) > 1 THEN <<kJSONElemSeparator>> ELSE <<>>) \o JsonFields(Tail(fs))

JsonElems(es) ==
  IF es = <<>> THEN <<>> ELSE <<kJSONElemSeparator>> \o Json(Head(es)) \o JsonElems(Tail(es))

JsonEntries(kv) ==
  IF kv = <<>> THEN <<>>
  ELSE (IF kv[1].t = "T_I32" THEN Quoted(Json(kv[1])) ELSE Json(kv[1])) \o <<kJSONPairSeparator>>
         \o Json(kv[2]) \o (IF Len(kv) > 2 THEN <<kJSONElemSeparator>> ELSE <<>>)
         \o JsonEntries(SubSeq(kv, 3, Len(kv)))

\* the envelope TJSONRPCProtocol is to write for a message
Envelope(messageType, name, seqid, payload) ==
  B("{\"jsonrpc\":\"2.0\",")
    \o (CASE messageType = TMessageType.T_CALL ->
               B("\"method\":") \o Quoted(name) \o B(",\"params\":") \o Json(payload)
                 \o B(",\"id\":") \o IntToStr(seqid)
          [] messageType = TMessageType.T_ONEWAY ->
               B("\"method\":") \o Quoted(name) \o B(",\"params\":") \o Json(payload)
          [] messageType = TMessageType.T_REPLY ->
               B("\"result\":") \o Json(payload) \o B(",\"id\":") \o IntToStr(seqid)
          [] messageType = TMessageType.T_EXCEPTION ->
               B("\"error\":{\"code\":-32000,\"message\":\"Thrift exception\",\"data\":")
                 \o Json(payload) \o B("},\"id\":") \o IntToStr(seqid))
    \o B("}")

----------------------------------------------------------------------------
(* Reading bytes that arrive from elsewhere: envelopes built member by     *)
(* member, and base-codec arrays with a version of choice.                 *)

ErrorMessage == B("Thrift exception")

\* a member of an envelope; the members of an kJSONRPCError object are in sub
Member(k) == [k |-> k, sub |-> <<>>]
ErrorMember(keys) == [k |-> kJSONRPCError, sub |-> [n \in 1..Len(keys) |-> Member(keys[n])]]

\* the members as text, each with the value the scenario sc gives it
RECURSIVE MembersText(_, _)
MembersText(sc, ms) ==
  IF ms = <<>> THEN <<>>
  ELSE Quoted(Head(ms).k) \o <<kJSONPairSeparator>>
         \o (CASE Head(ms).k = kJSONRPCName -> Quoted(sc.ver)
               [] Head(ms).k = kJSONRPCMethod -> Quoted(sc.s)
               [] Head(ms).k = kJSONRPCId -> IntToStr(sc.i)
               [] Head(ms).k \in {kJSONRPCParams, kJSONRPCResult, kJSONRPCData} -> Json(sc.payload)
               [] Head(ms).k = kJSONRPCCode -> IntToStr(0 - 32000)
               [] Head(ms).k = kJSONRPCMessage -> Quoted(ErrorMessage)
               [] Head(ms).k = kJSONRPCError ->
                    <<kJSONObjectStart>> \o MembersText(sc, Head(ms).sub) \o <<kJSONObjectEnd>>)
         \o (IF Len(ms) > 1 THEN <<kJSONElemSeparator>> ELSE <<>>) \o MembersText(sc, Tail(ms))

\* the bytes on the transport of a reading scenario
FedBytes(sc) ==
  IF sc.codec = "rpc"
  THEN <<kJSONObjectStart>> \o MembersText(sc, sc.mem) \o <<kJSONObjectEnd>>
  ELSE <<kJSONArrayStart>> \o sc.ver \o <<kJSONElemSeparator>> \o Quoted(sc.s) \o <<kJSONElemSeparator>> \o IntToStr(sc.m) \o <<kJSONElemSeparator>>
         \o IntToStr(sc.i) \o <<kJSONElemSeparator>> \o Json(sc.payload) \o <<kJSONArrayEnd>>

\* every order of the elements of a sequence
Perms(s) ==
  { [n \in 1..Len(s) |-> s[f[n]]] :
      f \in { g \in [1..Len(s) -> 1..Len(s)] :
                \A a, b \in 1..Len(s) : g[a] = g[b] => a = b } }

\* the seven envelopes readMessageBegin accepts: the keys of the envelope
\* and the keys of its error object
Shapes ==
  { [top |-> <<kJSONRPCName, kJSONRPCMethod, kJSONRPCId>>, err |-> <<>>],
    [top |-> <<kJSONRPCName, kJSONRPCMethod, kJSONRPCParams, kJSONRPCId>>, err |-> <<>>],
    [top |-> <<kJSONRPCName, kJSONRPCMethod>>, err |-> <<>>],
    [top |-> <<kJSONRPCName, kJSONRPCMethod, kJSONRPCParams>>, err |-> <<>>],
    [top |-> <<kJSONRPCName, kJSONRPCResult, kJSONRPCId>>, err |-> <<>>],
    [top |-> <<kJSONRPCName, kJSONRPCError, kJSONRPCId>>,
     err |-> <<kJSONRPCCode, kJSONRPCMessage>>],
    [top |-> <<kJSONRPCName, kJSONRPCError, kJSONRPCId>>,
     err |-> <<kJSONRPCCode, kJSONRPCMessage, kJSONRPCData>>] }

\* a shape with its members in every order, the error object's too
Orders(shape) ==
  { [n \in 1..Len(t) |-> IF t[n] = kJSONRPCError THEN ErrorMember(e) ELSE Member(t[n])] :
      t \in Perms(shape.top), e \in Perms(shape.err) }

AllKeys ==
  <<kJSONRPCName, kJSONRPCMethod, kJSONRPCId, kJSONRPCParams, kJSONRPCResult,
    kJSONRPCCode, kJSONRPCMessage, kJSONRPCData>>

\* the members with the keys AllKeys[n], n in S and n <= upto, in that order
RECURSIVE KeysIn(_, _)
KeysIn(S, upto) ==
  IF upto = 0 THEN <<>>
  ELSE KeysIn(S, upto - 1) \o (IF upto \in S THEN <<Member(AllKeys[upto])>> ELSE <<>>)

\* payloads without a brace inside a string
FedPayloads ==
  { pl \in Payloads :
      \A n \in 1..Len(pl.sub) :
        pl.sub[n].sub[1] \in {I32V(0 - 7), StrV(B("a\"")), I32V(55)} }

BadVersions == {B("1.0"), B("2"), <<>>}
BaseVersions ==
  {B("1"), B("01"), B("0"), B("2"), B("10"), B("-1"), B("18446744073709551616"),
   B("-18446744073709551615")}

Envelopes ==
  { [Scenario("envelope", "rpc") EXCEPT !.s = s, !.i = i, !.payload = pl, !.mem = ms,
                                        !.ver = kJSONRPCVersion] :
      s \in Names, i \in SeqIds, pl \in FedPayloads,
      ms \in UNION { Orders(shape) : shape \in Shapes } }

BadEnvelopes ==
  { [Scenario("badversion", "rpc") EXCEPT !.s = B("go"), !.i = 999, !.mem = ms, !.ver = v] :
      v \in BadVersions, ms \in UNION { Orders(shape) : shape \in Shapes } }

\* the recognized envelopes that carry a struct, the struct holding a brace
\* inside a string
BraceEnvelopes ==
  { [Scenario("brace", "rpc") EXCEPT !.s = B("go"), !.i = 999, !.mem = ms,
                                     !.payload = RecV(<<FieldV(0, StrV(str))>>),
                                     !.ver = kJSONRPCVersion] :
      str \in {B("}"), B("{")},
      ms \in UNION { Orders(shape) :
                       shape \in { sh \in Shapes :
                                     \/ \E n \in 1..Len(sh.top) :
                                          sh.top[n] \in {kJSONRPCParams, kJSONRPCResult}
                                     \/ \E n \in 1..Len(sh.err) :
                                          sh.err[n] = kJSONRPCData } } }

\* every set of the eight keys that set a flag, flat, in the order of AllKeys
KeySets ==
  { [Scenario("keys", "rpc") EXCEPT !.s = B("go"), !.i = 999, !.payload = pl,
                                    !.mem = KeysIn(S, Len(AllKeys)),
                                    !.ver = kJSONRPCVersion] :
      S \in SUBSET (1..Len(AllKeys)),
      pl \in {RecV(<<>>), RecV(<<FieldV(0, I32V(0 - 7))>>)} }

Arrays ==
  { [Scenario("array", "base") EXCEPT !.m = m, !.s = B("go"), !.i = i, !.payload = pl,
                                      !.ver = v] :
      v \in BaseVersions, m \in MsgTypes, i \in SeqIds, pl \in FedPayloads }

\* envelopes in which the member that carries the struct occurs twice
Duplicates ==
  { [Scenario("duplicate", "rpc") EXCEPT !.s = B("go"), !.i = 999, !.payload = pl,
                                         !.mem = ms, !.ver = kJSONRPCVersion] :
      pl \in {RecV(<<>>), RecV(<<FieldV(0, I32V(0 - 7))>>)},
      ms \in { <<Member(kJSONRPCName), Member(kJSONRPCMethod), Member(kJSONRPCParams),
                 Member(kJSONRPCParams), Member(kJSONRPCId)>>,
               <<Member(kJSONRPCParams), Member(kJSONRPCName), Member(kJSONRPCMethod),
                 Member(kJSONRPCParams)>>,
               <<Member(kJSONRPCName), Member(kJSONRPCResult), Member(kJSONRPCId),
                 Member(kJSONRPCResult)>>,
               <<Member(kJSONRPCName),
                 ErrorMember(<<kJSONRPCCode, kJSONRPCMessage, kJSONRPCData, kJSONRPCData>>),
                 Member(kJSONRPCId)>> } }

Fed == Envelopes \cup BadEnvelopes \cup BraceEnvelopes \cup KeySets \cup Arrays
         \cup Duplicates

\* an envelope member that carries the struct
HasPayload(ms) ==
  \E n \in 1..Len(ms) :
    \/ ms[n].k \in {kJSONRPCParams, kJSONRPCResult, kJSONRPCData}
    \/ \E j \in 1..Len(ms[n].sub) : ms[n].sub[j].k = kJSONRPCData

\* the reader's calls: the message, the struct it expects, the end
FedScript(sc) ==
  <<Op("readMessageBegin")>>
    \o ReadOps(IF sc.codec = "base" \/ HasPayload(sc.mem) THEN sc.payload ELSE RecV(<<>>))
    \o <<Op("readMessageEnd")>>

InitRead ==
  /\ scen \in Fed
  /\ codec = scen.codec
  /\ \E garbage \in Garbage : Constructed([data |-> FedBytes(scen), rpos |-> 0], garbage)
  /\ script = FedScript(scen)
  /\ done = <<>>

NextRead ==
  \/ ReadMessageBegin \/ ReadMessageEnd
  \/ ReadStructBegin \/ ReadStructEnd
  \/ ReadFieldBegin \/ ReadFieldEnd
  \/ ReadI32 \/ ReadString

SpecRead == InitRead /\ [][NextRead]_vars
----------------------------------------------------------------------------
(* Sessions: one RPC instance that is used again after a message begin     *)
(* that threw, or for writing while it is reading.                         *)

\* the members of a shape in the writer's order
InOrder(shape) ==
  [n \in 1..Len(shape.top) |->
     IF shape.top[n] = kJSONRPCError THEN ErrorMember(shape.err) ELSE Member(shape.top[n])]

\* the bytes readMessageBegin consumes before it throws: a bad version, an
\* unknown key, a byte that is not the one expected, and whole envelopes
\* whose flags are not a recognized set
FailingPrefixes ==
  { B("{\"jsonrpc\":\"1.0\""),
    B("{\"method\":\"go\",\"jsonrpc\":\"1.0\""),
    B("{\"params\":{},\"jsonrpc\":\"2\""),
    B("{\"bogus\""),
    B("{\"jsonrpc\":\"2.0\",\"bogus\""),
    B("{\"jsonrpc\":\"2.0\";"),
    B("["),
    B("{}"),
    B("{\"jsonrpc\":\"2.0\",\"id\":1}"),
    B("{\"jsonrpc\":\"2.0\",\"params\":{}}") }

\* message types outside TMessageType
BadTypes == {0, 5}

\* a message begin that throws, then a well-formed message, on one instance
Rereads ==
  { [Scenario("reread", "rpc") EXCEPT !.s = B("go"), !.i = 999, !.mem = InOrder(shape),
                                      !.payload = pl, !.ver = kJSONRPCVersion,
                                      !.pre = pre] :
      shape \in Shapes, pre \in FailingPrefixes,
      pl \in {RecV(<<>>), RecV(<<FieldV(0, I32V(0 - 7))>>)} }

Rewrites ==
  { [Scenario("rewrite", "rpc") EXCEPT !.s = B("go"), !.i = 999, !.m = m, !.payload = pl,
                                       !.ver = IntToStr(bad)] :
      m \in MsgTypes, bad \in BadTypes,
      pl \in {RecV(<<>>), RecV(<<FieldV(0, I32V(0 - 7))>>)} }

\* a reply written between readMessageBegin and the reads of the struct
Interleaved ==
  { [Scenario("interleaved", "rpc") EXCEPT !.s = B("go"), !.i = 999,
                                           !.mem = InOrder(shape), !.payload = pl,
                                           !.ver = kJSONRPCVersion] :
      shape \in Shapes, pl \in {RecV(<<>>), RecV(<<FieldV(0, I32V(0 - 7))>>)} }

\* writeMessageEnd with no message begun: as the first call, a second time
\* after a message, and after a readMessageBegin that threw or returned
EndsAlone ==
  { Scenario("endfirst", "rpc") }
    \cup { [Scenario("endtwice", "rpc") EXCEPT !.s = B("go"), !.i = 999, !.m = m,
                                               !.payload = pl] :
             m \in MsgTypes, pl \in {RecV(<<>>), RecV(<<FieldV(0, I32V(0 - 7))>>)} }
    \cup { [Scenario("endafterread", "rpc") EXCEPT !.s = B("go"), !.i = 999,
                                                   !.mem = InOrder(shape),
                                                   !.ver = kJSONRPCVersion, !.pre = pre] :
             shape \in Shapes, pre \in FailingPrefixes \cup {<<>>} }

\* an exception begun and ended with no data struct written, then read
NoData ==
  { [Scenario("nodata", "rpc") EXCEPT !.s = s, !.i = i, !.m = TMessageType.T_EXCEPTION] :
      s \in Names, i \in SeqIds }

\* two envelopes back to back on one transport: the first in every order of
\* its members, the second in the writer's order with another name and id
Twice ==
  { [Scenario("twice", "rpc") EXCEPT !.s = B("go"), !.i = 999, !.mem = ms, !.payload = pl,
                                     !.ver = kJSONRPCVersion, !.next = InOrder(shape)] :
      ms \in UNION { Orders(sh) : sh \in Shapes }, shape \in Shapes,
      pl \in {RecV(<<>>), RecV(<<FieldV(0, I32V(0 - 7))>>)} }

\* the second envelope of a scenario of two
Second(sc) == [sc EXCEPT !.mem = sc.next, !.s = B("a\""), !.i = 0 - 3]

\* an envelope read, with its struct, between writeMessageBegin and the
\* writes of the struct
ReadInWrite ==
  { [Scenario("readinwrite", "rpc") EXCEPT !.s = B("go"), !.i = 999, !.m = m,
                                           !.mem = InOrder(shape), !.payload = pl,
                                           !.ver = kJSONRPCVersion] :
      m \in MsgTypes, shape \in Shapes,
      pl \in {RecV(<<>>), RecV(<<FieldV(0, I32V(0 - 7))>>)} }

Sessions ==
  Rereads \cup Rewrites \cup Interleaved \cup EndsAlone \cup NoData \cup Twice
    \cup ReadInWrite

\* the struct a reader of the envelope of sc expects
StructOf(sc) == IF HasPayload(sc.mem) THEN sc.payload ELSE RecV(<<>>)

SessionScript(sc) ==
  CASE sc.kind = "reread" ->
         <<Op("readMessageBegin"), Op("readMessageBegin")>>
           \o ReadOps(StructOf(sc)) \o <<Op("readMessageEnd")>>
    [] sc.kind = "rewrite" ->
         <<[Op("writeMessageBegin") EXCEPT !.s = sc.s, !.m = DigitsVal(sc.ver), !.i = sc.i],
           [Op("writeMessageBegin") EXCEPT !.s = sc.s, !.m = sc.m, !.i = sc.i]>>
           \o WriteOps(sc.payload) \o <<Op("writeMessageEnd")>>
    [] sc.kind = "endfirst" -> <<Op("writeMessageEnd")>>
    [] sc.kind = "endtwice" ->
         <<[Op("writeMessageBegin") EXCEPT !.s = sc.s, !.m = sc.m, !.i = sc.i]>>
           \o WriteOps(sc.payload) \o <<Op("writeMessageEnd"), Op("writeMessageEnd")>>
    [] sc.kind = "endafterread" -> <<Op("readMessageBegin"), Op("writeMessageEnd")>>
    [] sc.kind = "nodata" ->
         <<[Op("writeMessageBegin") EXCEPT !.s = sc.s, !.m = sc.m, !.i = sc.i],
           Op("writeMessageEnd"), Op("construct"), Op("readMessageBegin")>>
    [] sc.kind = "twice" ->
         <<Op("readMessageBegin")>> \o ReadOps(StructOf(sc))
           \o <<Op("readMessageEnd"), Op("readMessageBegin")>>
           \o ReadOps(StructOf(Second(sc))) \o <<Op("readMessageEnd")>>
    [] sc.kind = "readinwrite" ->
         <<[Op("writeMessageBegin") EXCEPT !.s = sc.s, !.m = sc.m, !.i = sc.i],
           Op("readMessageBegin")>>
           \o ReadOps(StructOf(sc)) \o <<Op("readMessageEnd")>>
           \o WriteOps(sc.payload) \o <<Op("writeMessageEnd")>>
    [] sc.kind = "interleaved" ->
         <<Op("readMessageBegin"),
           [Op("writeMessageBegin") EXCEPT !.s = sc.s, !.m = TMessageType.T_REPLY,
                                           !.i = sc.i]>>
           \o WriteOps(RecV(<<>>)) \o <<Op("writeMessageEnd")>>
           \o ReadOps(StructOf(sc)) \o <<Op("readMessageEnd")>>

InitSession ==
  /\ scen \in Sessions
  /\ codec = scen.codec
  /\ \E garbage \in Garbage :
       Constructed(IF scen.kind \in {"rewrite", "endfirst", "endtwice", "nodata"}
                   THEN EmptyTransport
                   ELSE [data |-> scen.pre \o FedBytes(scen)
                                    \o (IF scen.kind = "twice" THEN FedBytes(Second(scen))
                                        ELSE <<>>),
                         rpos |-> 0], garbage)
  /\ script = SessionScript(scen)
  /\ done = <<>>

NextSession ==
  \/ Construct
  \/ WriteMessageBegin \/ WriteMessageEnd
  \/ WriteStructBegin \/ WriteStructEnd
  \/ WriteFieldBegin \/ WriteFieldEnd \/ WriteFieldStop
  \/ WriteI32
  \/ ReadMessageBegin \/ ReadMessageEnd
  \/ ReadStructBegin \/ ReadStructEnd
  \/ ReadFieldBegin \/ ReadFieldEnd
  \/ ReadI32

SpecSession == InitSession /\ [][NextSession]_vars
----------------------------------------------------------------------------
(* Reading what another writer sent: sizes, field ids, seqids and type     *)
(* tags as any text; writing and reading back every type tag               *)

\* decimal texts at the limits of int16_t, int32_t, uint32_t and uint64_t
NumTexts ==
  {B("0"), B("7"), B("32767"), B("32768"), B("2147483647"), B("2147483648"),
   B("4294967295"), B("4294967296"), B("18446744073709551615"),
   B("18446744073709551616")}

\* where the text stands: the size of a list, of a set or of a map, the id
\* of a field, the seqid of a message of the base codec
NumKinds == {"list", "set", "map", "field", "seqid"}

\* the types getTypeNameForTypeID has a name for
NamedTypes ==
  {"T_BOOL", "T_BYTE", "T_I16", "T_I32", "T_I64", "T_DOUBLE", "T_STRING", "T_STRUCT",
   "T_MAP", "T_SET", "T_LIST"}
\* the type ids a caller may pass: the named ones, stop and one more
TypeIds == NamedTypes \cup {"T_STOP", "T_VOID"}

\* the names of the types, and other strings
TagTexts ==
  { getTypeNameForTypeID(t) : t \in NamedTypes }
    \cup {B("xx"), B("i"), B("i9"), B("se"), B("st"), B("i3"), B("tx"), B("list"),
          B("double"), B("I32"), B("sx")}

Wires ==
  { [Scenario(kind, cdc) EXCEPT !.ver = text] :
      kind \in NumKinds \ {"seqid"}, cdc \in {"rpc", "base"}, text \in NumTexts }
    \cup { [Scenario("seqid", "base") EXCEPT !.ver = text] : text \in NumTexts }
    \cup { [Scenario("tag", cdc) EXCEPT !.ver = text] :
             cdc \in {"rpc", "base"}, text \in TagTexts }
    \cup { [Scenario("types", cdc) EXCEPT !.m = TMessageType.T_CALL, !.s = B("go"),
                                          !.payload = RecV(<<FieldV(1, LstV(t, <<>>))>>)] :
             cdc \in {"rpc", "base"}, t \in TypeIds }

\* the struct the other writer sent
WireStruct(sc) ==
  CASE sc.kind = "list" -> B("{\"1\":{\"lst\":[\"i32\",") \o sc.ver \o B("]}}")
    [] sc.kind = "set" -> B("{\"1\":{\"set\":[\"i32\",") \o sc.ver \o B("]}}")
    [] sc.kind = "map" -> B("{\"1\":{\"map\":[\"i32\",\"i32\",") \o sc.ver \o B(",{}]}}")
    [] sc.kind = "field" -> B("{\"") \o sc.ver \o B("\":{\"i32\":0}}")
    [] sc.kind = "tag" -> B("{\"1\":{\"lst\":[\"") \o sc.ver \o B("\",0]}}")
    [] OTHER -> B("{}")

\* the message the other writer sent
WireBytes(sc) ==
  IF sc.codec = "base"
  THEN B("[1,\"go\",1,") \o (IF sc.kind = "seqid" THEN sc.ver ELSE B("0")) \o B(",")
         \o WireStruct(sc) \o B("]")
  ELSE B("{\"jsonrpc\":\"2.0\",\"method\":\"go\",\"params\":") \o WireStruct(sc)
         \o B(",\"id\":0}")

\* the reader's calls, up to the call that meets the text
WireScript(sc) ==
  CASE sc.kind = "types" -> RoundTripScript(sc)
    [] sc.kind = "seqid" -> <<Op("readMessageBegin")>>
    [] sc.kind = "field" ->
         <<Op("readMessageBegin"), Op("readStructBegin"), Op("readFieldBegin")>>
    [] sc.kind = "set" ->
         <<Op("readMessageBegin"), Op("readStructBegin"), Op("readFieldBegin"),
           Op("readSetBegin")>>
    [] sc.kind = "map" ->
         <<Op("readMessageBegin"), Op("readStructBegin"), Op("readFieldBegin"),
           Op("readMapBegin")>>
    [] OTHER ->
         <<Op("readMessageBegin"), Op("readStructBegin"), Op("readFieldBegin"),
           Op("readListBegin")>>

InitWire ==
  /\ scen \in Wires
  /\ codec = scen.codec
  /\ \E garbage \in Garbage :
       Constructed(IF scen.kind = "types" THEN EmptyTransport
                   ELSE [data |-> WireBytes(scen), rpos |-> 0], garbage)
  /\ script = WireScript(scen)
  /\ done = <<>>

NextWire ==
  \/ Construct
  \/ WriteMessageBegin \/ WriteMessageEnd
  \/ WriteStructBegin \/ WriteStructEnd
  \/ WriteFieldBegin \/ WriteFieldEnd \/ WriteFieldStop
  \/ WriteListBegin \/ WriteListEnd
  \/ ReadMessageBegin \/ ReadMessageEnd
  \/ ReadStructBegin \/ ReadStructEnd
  \/ ReadFieldBegin \/ ReadFieldEnd
  \/ ReadMapBegin
  \/ ReadListBegin \/ ReadListEnd
  \/ ReadSetBegin

SpecWire == InitWire /\ [][NextWire]_vars

----------------------------------------------------------------------------
(* Primitive calls on an instance whose current context is the root: a     *)
(* string or a binary written and read back, strings another writer sent   *)

\* the bytes that writeChar and readString tell apart: NUL, a control byte
\* with an escape of its own and one without, the quote, the last byte of
\* kJSONCharTable, the backslash, u, DEL and bytes above 0x7f
SpecialBytes == {0, 9, 31, 34, 47, 92, 117, 127, 128, 255}

\* every byte alone, and the special bytes two by two
Strings ==
  { <<b>> : b \in 0..255 } \cup { <<a, b>> : a \in SpecialBytes, b \in SpecialBytes }

\* what stands between the quotes of a string another writer sent: a high
\* surrogate, a low surrogate and another code unit as \u escapes, a plain
\* byte, a simple escape
Units == {"high", "low", "unit", "plain", "simple"}
UnitText(u) ==
  CASE u = "high" -> B("\\ud83d")
    [] u = "low" -> B("\\ude00")
    [] u = "unit" -> B("\\u0041")
    [] u = "plain" -> B("x")
    [] u = "simple" -> B("\\n")

MaxUnits == 3

RECURSIVE UnitSeqs(_)
UnitSeqs(n) ==
  IF n = 0 THEN {<<>>}
  ELSE UnitSeqs(n - 1)
         \cup { Append(us, u) : us \in {v \in UnitSeqs(n - 1) : Len(v) = n - 1}, u \in Units }

RECURSIVE UnitsText(_)
UnitsText(us) == IF us = <<>> THEN <<>> ELSE UnitText(Head(us)) \o UnitsText(Tail(us))

\* the binaries written: up to MaxBinLen bytes out of BinBytes, and every
\* byte alone
BinBytes == {0, 77, 128, 255}
MaxBinLen == 4

RECURSIVE ByteSeqs(_)
ByteSeqs(n) ==
  IF n = 0 THEN {<<>>}
  ELSE ByteSeqs(n - 1)
         \cup { Append(bs, b) : bs \in {v \in ByteSeqs(n - 1) : Len(v) = n - 1},
                                b \in BinBytes }

Binaries == ByteSeqs(MaxBinLen) \cup { <<b>> : b \in 0..255 }

\* Base64 texts another writer sent: with and without padding, with one
\* character left over, and padding alone
PaddedTexts ==
  {B(""), B("="), B("=="), B("==="), B("T"), B("TQ"), B("TQ="), B("TQ=="), B("TQD/"),
   B("TQD/g"), B("TQD/g="), B("TQD/gA"), B("TQD/gA="), B("TQD/gA=="), B("TQD/gID/")}

Prims ==
  { [Scenario("string", cdc) EXCEPT !.s = str] : cdc \in {"rpc", "base"}, str \in Strings }
    \cup { [Scenario("escapes", cdc) EXCEPT !.mem = us] :
             cdc \in {"rpc", "base"}, us \in UnitSeqs(MaxUnits) }
    \cup { [Scenario("binary", cdc) EXCEPT !.s = bs] :
             cdc \in {"rpc", "base"}, bs \in Binaries }
    \cup { [Scenario("padded", cdc) EXCEPT !.ver = text] :
             cdc \in {"rpc", "base"}, text \in PaddedTexts }

PrimScript(sc) ==
  CASE sc.kind = "string" ->
         <<[Op("writeString") EXCEPT !.s = sc.s], Op("construct"),
           [Op("readString") EXCEPT !.s = sc.s]>>
    [] sc.kind = "escapes" -> <<Op("readString")>>
    [] sc.kind = "padded" -> <<Op("readBinary")>>
    [] sc.kind = "binary" ->
         <<[Op("writeBinary") EXCEPT !.s = sc.s], Op("construct"),
           [Op("readBinary") EXCEPT !.s = sc.s]>>

\* the bytes on the transport before the first call
PrimBytes(sc) ==
  CASE sc.kind = "escapes" ->
         <<kJSONStringDelimiter>> \o UnitsText(sc.mem) \o <<kJSONStringDelimiter>>
    [] sc.kind = "padded" ->
         <<kJSONStringDelimiter>> \o sc.ver \o <<kJSONStringDelimiter>>
    [] OTHER -> <<>>

InitPrim ==
  /\ scen \in Prims
  /\ codec = scen.codec
  /\ \E garbage \in Garbage : Constructed([data |-> PrimBytes(scen), rpos |-> 0], garbage)
  /\ script = PrimScript(scen)
  /\ done = <<>>

NextPrim ==
  \/ Construct
  \/ WriteString \/ ReadString
  \/ WriteBinary \/ ReadBinary

SpecPrim == InitPrim /\ [][NextPrim]_vars

----------------------------------------------------------------------------
(* Elements in one context: a struct, a list or the root takes a sequence  *)
(* of integers, strings and child containers, written and read back, or    *)
(* read from the bytes another writer sent.                                *)

Elems == {"int", "str", "obj", "arr"}
MaxTicks == 4

RECURSIVE ElemSeqs(_)
ElemSeqs(n) ==
  IF n = 0 THEN {<<>>}
  ELSE ElemSeqs(n - 1)
         \cup { Append(es, e) : es \in {v \in ElemSeqs(n - 1) : Len(v) = n - 1}, e \in Elems }

\* the integer and the string written as element k
IntOf(k) == IF k % 2 = 0 THEN 0 - (k + 1) ELSE 20 + k
StrOf(k) == IF k % 2 = 0 THEN B(",") ELSE B("a:")

\* the calls that write, or read, es[k + 1] as element k
ElemOps(dir, es, k) ==
  CASE es[k + 1] = "int" -> <<[Op(dir \o "I32") EXCEPT !.i = IntOf(k), !.tick = k]>>
    [] es[k + 1] = "str" -> <<[Op(dir \o "String") EXCEPT !.s = StrOf(k), !.tick = k]>>
    [] es[k + 1] = "obj" -> <<[Op(dir \o "StructBegin") EXCEPT !.tick = k],
                              Op(dir \o "StructEnd")>>
    [] es[k + 1] = "arr" -> <<[Op(dir \o "ListBegin") EXCEPT !.t = "T_I32", !.tick = k],
                              Op(dir \o "ListEnd")>>

RECURSIVE ElemsOps(_, _, _)
ElemsOps(dir, es, k) ==
  IF k >= Len(es) THEN <<>> ELSE ElemOps(dir, es, k) \o ElemsOps(dir, es, k + 1)

\* the calls that open and close the context the elements are in
OpenOps(dir, sc) ==
  CASE sc.outer = "pair" -> <<Op(dir \o "StructBegin")>>
    [] sc.outer = "list" ->
         <<[Op(dir \o "ListBegin") EXCEPT !.t = "T_STRING", !.i = Len(sc.mem)]>>
    [] OTHER -> <<>>
CloseOps(dir, sc) ==
  CASE sc.outer = "pair" -> <<Op(dir \o "StructEnd")>>
    [] sc.outer = "list" -> <<Op(dir \o "ListEnd")>>
    [] OTHER -> <<>>

\* at the root no byte stands between two elements: an integer there is
\* followed by an element that does not begin with a digit
Readable(outer, es) ==
  outer = "bare" =>
    \A k \in 1..Len(es) : es[k] = "int" => (k < Len(es) /\ es[k + 1] # "int")

\* the separators and the elements of a struct as another writer sends them
SepOf(k) ==
  IF k = 0 THEN <<>> ELSE IF k % 2 = 1 THEN <<kJSONPairSeparator>> ELSE <<kJSONElemSeparator>>
ElemText(es, k) ==
  CASE es[k + 1] = "int" ->
         IF k % 2 = 0
         THEN <<kJSONStringDelimiter>> \o IntToStr(IntOf(k)) \o <<kJSONStringDelimiter>>
         ELSE IntToStr(IntOf(k))
    [] es[k + 1] = "str" -> <<kJSONStringDelimiter>> \o StrOf(k) \o <<kJSONStringDelimiter>>
    [] es[k + 1] = "obj" -> B("{}")
    [] es[k + 1] = "arr" -> B("[\"i32\",0]")

\* the elements from k on, the separator of element at (from 1 on) replaced
\* by byte
RECURSIVE ElemsText(_, _, _, _)
ElemsText(es, k, at, byte) ==
  IF k >= Len(es) THEN <<>>
  ELSE (IF k = at /\ k > 0 THEN <<byte>> ELSE SepOf(k)) \o ElemText(es, k)
         \o ElemsText(es, k + 1, at, byte)

\* the bytes that may stand where a separator is expected
SepBytes == {kJSONPairSeparator, kJSONElemSeparator, Ord(";"), kJSONObjectEnd}

Contexts ==
  { sc \in { [Scenario("elements", "rpc") EXCEPT !.outer = o, !.mem = es] :
                o \in {"pair", "list", "bare"}, es \in ElemSeqs(MaxTicks) } :
      Readable(sc.outer, sc.mem) }
    \cup { [Scenario("separator", "rpc") EXCEPT !.outer = "pair", !.mem = es, !.at = k,
                                                !.byte = b] :
             es \in {v \in ElemSeqs(MaxTicks) : \A n \in 1..Len(v) : v[n] \in {"int", "obj"}},
             k \in 0..(MaxTicks - 1), b \in SepBytes }

CtxScript(sc) ==
  CASE sc.kind = "elements" ->
         OpenOps("write", sc) \o ElemsOps("write", sc.mem, 0) \o CloseOps("write", sc)
           \o <<Op("construct")>>
           \o OpenOps("read", sc) \o ElemsOps("read", sc.mem, 0) \o CloseOps("read", sc)
    [] sc.kind = "separator" ->
         OpenOps("read", sc) \o ElemsOps("read", sc.mem, 0) \o CloseOps("read", sc)

\* the bytes on the transport before the first call
CtxBytes(sc) ==
  CASE sc.kind = "separator" ->
         <<kJSONObjectStart>> \o ElemsText(sc.mem, 0, sc.at, sc.byte) \o <<kJSONObjectEnd>>
    [] OTHER -> <<>>

InitCtx ==
  /\ scen \in Contexts
  /\ codec = scen.codec
  /\ \E garbage \in Garbage : Constructed([data |-> CtxBytes(scen), rpos |-> 0], garbage)
  /\ script = CtxScript(scen)
  /\ done = <<>>

NextCtx ==
  \/ Construct
  \/ WriteStructBegin \/ WriteStructEnd
  \/ WriteListBegin \/ WriteListEnd
  \/ WriteI32 \/ WriteString
  \/ ReadStructBegin \/ ReadStructEnd
  \/ ReadListBegin \/ ReadListEnd
  \/ ReadI32 \/ ReadString

SpecCtx == InitCtx /\ [][NextCtx]_vars
----------------------------------------------------------------------------
(* The lookahead reader of the root context: sequences of peek() and       *)
(* read() over a transport of a few bytes.                                 *)

MaxReaderOps == 5

RECURSIVE ReaderOps(_)
ReaderOps(n) ==
  IF n = 0 THEN {<<>>}
  ELSE ReaderOps(n - 1)
         \cup { Append(os, o) : os \in {v \in ReaderOps(n - 1) : Len(v) = n - 1},
                                o \in {"peek", "read"} }

ReaderBytes == {<<>>, B("a"), B("ab"), B("aab"), B("{\"a\":1}")}

Readers ==
  { [Scenario("reader", cdc) EXCEPT !.mem = os, !.pre = bs] :
      cdc \in {"rpc", "base"}, os \in ReaderOps(MaxReaderOps) \ {<<>>}, bs \in ReaderBytes }

ReaderScript(sc) == [n \in 1..Len(sc.mem) |-> Op(sc.mem[n])]

InitReader ==
  /\ scen \in Readers
  /\ codec = scen.codec
  /\ \E garbage \in Garbage : Constructed([data |-> scen.pre, rpos |-> 0], garbage)
  /\ script = ReaderScript(scen)
  /\ done = <<>>

NextReader == Peek \/ Read

SpecReader == InitReader /\ [][NextReader]_vars
----------------------------------------------------------------------------
(* Numbers another writer sent: a run of characters, between quotes or     *)
(* not, as a key or a value of a struct, an element of a list or at the    *)
(* root, read as an integer                                                *)

\* runs of numeric characters: integers with and without a sign or leading
\* zeros, at the limits of int8_t and int16_t, and runs that are no integer
NumRuns ==
  {B("7"), B("-12"), B("+5"), B("007"), B("127"), B("128"), B("255"), B("256"), B("300"),
   B("-128"), B("-129"), B("32767"), B("32768"), B(""), B("-"), B("1.5"), B("1e2"),
   B("2147483648"), B("5-")}

\* the names of the doubles that are no number, numbers as writeDouble and
\* as others write them, and a text that is neither
DoubleTexts ==
  {kThriftNan, kThriftInfinity, kThriftNegativeInfinity, B("0"), B("1.5"), B("-2.0"),
   B("1e+22"), B("0.10000000000000001"), B("1.5.2"), B("x")}

Positions == {"key", "value", "list", "bare"}
IntReads == {"readI32", "readI16", "readByte"}

Numbers ==
  { [Scenario("number", cdc) EXCEPT !.outer = pos, !.ver = text, !.op = op,
                                    !.open = o, !.close = c] :
      cdc \in {"rpc", "base"}, pos \in Positions, text \in NumRuns, op \in IntReads,
      o \in BOOLEAN, c \in BOOLEAN }
    \cup { [Scenario("number", "rpc") EXCEPT !.outer = pos, !.ver = text,
                                             !.op = "readDouble", !.open = o, !.close = o] :
             pos \in Positions, text \in DoubleTexts, o \in BOOLEAN }

\* the run and its quotes
NumToken(sc) ==
  (IF sc.open THEN <<kJSONStringDelimiter>> ELSE <<>>) \o sc.ver
    \o (IF sc.close THEN <<kJSONStringDelimiter>> ELSE <<>>)

NumBytes(sc) ==
  CASE sc.outer = "key" -> B("{") \o NumToken(sc) \o B(":0}")
    [] sc.outer = "value" -> B("{\"k\":") \o NumToken(sc) \o B("}")
    [] sc.outer = "list" -> B("[\"i32\",1,") \o NumToken(sc) \o B("]")
    [] OTHER -> NumToken(sc) \o B(";")

NumScript(sc) ==
  CASE sc.outer = "key" ->
         <<Op("readStructBegin"), Op(sc.op), Op("readI32"), Op("readStructEnd")>>
    [] sc.outer = "value" ->
         <<Op("readStructBegin"), Op("readString"), Op(sc.op), Op("readStructEnd")>>
    [] sc.outer = "list" -> <<Op("readListBegin"), Op(sc.op), Op("readListEnd")>>
    [] OTHER -> <<Op(sc.op)>>

\* every int8_t written into a list and read back
Bytes ==
  { [Scenario("byte", cdc) EXCEPT !.i = t] : cdc \in {"rpc", "base"}, t \in (0 - 128)..127 }

ByteScript(sc) ==
  <<[Op("writeListBegin") EXCEPT !.t = "T_BYTE", !.i = 1],
    [Op("writeByte") EXCEPT !.i = sc.i], Op("writeListEnd"), Op("construct"),
    [Op("readListBegin") EXCEPT !.t = "T_BYTE", !.i = 1],
    [Op("readByte") EXCEPT !.i = sc.i], Op("readListEnd")>>

\* doubles written as a key or a value of a struct or into a list, and read
\* back
Doubles ==
  {kThriftNan, kThriftInfinity, kThriftNegativeInfinity, B("0"), B("1.5"), B("-2"),
   B("0.1"), B("1e22"), B("-2.5e-07")}
DoubleTrips ==
  { [Scenario("double", cdc) EXCEPT !.outer = pos, !.s = d] :
      cdc \in {"rpc", "base"}, pos \in Positions \ {"bare"}, d \in Doubles }

DoubleOps(dir, sc) ==
  CASE sc.outer = "key" ->
         <<Op(dir \o "StructBegin"), [Op(dir \o "Double") EXCEPT !.s = sc.s],
           Op(dir \o "I32"), Op(dir \o "StructEnd")>>
    [] sc.outer = "value" ->
         <<Op(dir \o "StructBegin"), [Op(dir \o "String") EXCEPT !.s = B("k")],
           [Op(dir \o "Double") EXCEPT !.s = sc.s], Op(dir \o "StructEnd")>>
    [] OTHER ->
         <<[Op(dir \o "ListBegin") EXCEPT !.t = "T_DOUBLE", !.i = 1],
           [Op(dir \o "Double") EXCEPT !.s = sc.s], Op(dir \o "ListEnd")>>

DoubleScript(sc) == DoubleOps("write", sc) \o <<Op("construct")>> \o DoubleOps("read", sc)

InitNum ==
  /\ scen \in Numbers \cup Bytes \cup DoubleTrips
  /\ codec = scen.codec
  /\ \E garbage \in Garbage :
       Constructed(IF scen.kind \in {"byte", "double"} THEN EmptyTransport
                   ELSE [data |-> NumBytes(scen), rpos |-> 0], garbage)
  /\ script = CASE scen.kind = "byte" -> ByteScript(scen)
                [] scen.kind = "double" -> DoubleScript(scen)
                [] OTHER -> NumScript(scen)
  /\ done = <<>>

NextNum ==
  \/ Construct
  \/ WriteStructBegin \/ WriteStructEnd
  \/ WriteListBegin \/ WriteListEnd
  \/ WriteByte \/ WriteI32 \/ WriteString \/ WriteDouble
  \/ ReadStructBegin \/ ReadStructEnd
  \/ ReadListBegin \/ ReadListEnd
  \/ ReadString
  \/ ReadI32 \/ ReadI16 \/ ReadByte \/ ReadDouble

SpecNum == InitNum /\ [][NextNum]_vars

----------------------------------------------------------------------------
(* Properties of the messages written (Spec)                               *)

\* the call that returned last
LastCall == done[Len(done)]
Returned(op) == done # <<>> /\ LastCall.call.op = op /\ LastCall.err = "none"

\* the writer's calls of a round trip are the first WriteLen(scen) calls
WriteLen(sc) == Len(WriteOps(sc.payload)) + 2
NoWriteFails == \A n \in 1..Len(done) : n <= WriteLen(scen) => done[n].err = "none"

\* C1: in the RPC codec, writeMessageBegin(name, CALL, seqid), one params
\* struct and writeMessageEnd put exactly
\* {"jsonrpc":"2.0","method":<name>,"params":<struct>,"id":<seqid>} on the
\* transport, the id an unquoted number; ONEWAY gives the same without the
\* id member; none of the writes fails.
CallEnvelopeWritten ==
  (codec = "rpc" /\ scen.m \in {TMessageType.T_CALL, TMessageType.T_ONEWAY})
    => /\ NoWriteFails
       /\ Returned("writeMessageEnd")
            => trans.data = Envelope(scen.m, scen.s, scen.i, scen.payload)

CallEnvelopeWitness ==
  /\ codec = "rpc" /\ scen.m = TMessageType.T_CALL /\ Returned("writeMessageEnd")
  /\ trans.data = B("{\"jsonrpc\":\"2.0\",\"method\":\"go\",\"params\":{},\"id\":0}")

\* C2: in the RPC codec, writeMessageBegin(name, REPLY, seqid), one result
\* struct and writeMessageEnd put exactly
\* {"jsonrpc":"2.0","result":<struct>,"id":<seqid>} on the transport: no
\* method name, the id after the result.
ReplyEnvelopeWritten ==
  (codec = "rpc" /\ scen.m = TMessageType.T_REPLY)
    => /\ NoWriteFails
       /\ Returned("writeMessageEnd")
            => trans.data = Envelope(scen.m, scen.s, scen.i, scen.payload)

ReplyEnvelopeWitness ==
  /\ codec = "rpc" /\ scen.m = TMessageType.T_REPLY /\ Returned("writeMessageEnd")
  /\ trans.data = B("{\"jsonrpc\":\"2.0\",\"result\":{\"0\":{\"i32\":-7}},\"id\":999}")

\* C3: in the RPC codec, writeMessageBegin(name, EXCEPTION, seqid), one data
\* struct and writeMessageEnd put exactly {"jsonrpc":"2.0","error":{"code":
\* -32000,"message":"Thrift exception","data":<struct>},"id":<seqid>} on the
\* transport: the error object is closed before the id, the id is inside
\* the envelope.
ExceptionEnvelopeWritten ==
  (codec = "rpc" /\ scen.m = TMessageType.T_EXCEPTION)
    => /\ NoWriteFails
       /\ Returned("writeMessageEnd")
            => trans.data = Envelope(scen.m, scen.s, scen.i, scen.payload)

ExceptionEnvelopeWitness ==
  /\ codec = "rpc" /\ scen.m = TMessageType.T_EXCEPTION /\ Returned("writeMessageEnd")
  /\ trans.data =
       B("{\"jsonrpc\":\"2.0\",\"error\":{\"code\":-32000,\"message\":\"Thrift exception\",")
         \o B("\"data\":{\"0\":{\"str\":\"a\\\"\"},\"1\":{\"i32\":55}}},\"id\":-3}")

\* the calls a reader makes between readMessageBegin and readMessageEnd
PayloadReads ==
  {"readStructBegin", "readStructEnd", "readFieldBegin", "readFieldEnd", "readMapBegin",
   "readMapEnd", "readListBegin", "readListEnd", "readI32", "readString"}

\* C8: RPC round trip: on the bytes the RPC writer produced for a message,
\* readMessageBegin succeeds and every struct, field, container and
\* primitive read up to readMessageEnd succeeds and returns the field id,
\* type or value that was written.
RpcRoundTrip ==
  codec = "rpc"
    => \A n \in 1..Len(done) :
         /\ done[n].err = "none"
         /\ done[n].call.op \in PayloadReads => done[n].ret = Expected(done[n].call)


----------------------------------------------------------------------------
(* Properties of the base codec and of structs, fields and containers     *)
(* (Spec)                                                                  *)

\* the array TJSONProtocol is to write for a message, without its closing ]
BaseMessageOpen(messageType, name, seqid, payload) ==
  B("[1,") \o Quoted(name) \o B(",") \o IntToStr(messageType) \o B(",") \o IntToStr(seqid)
    \o B(",") \o Json(payload)

\* C14: in the base codec writeMessageBegin(name, type, seqid), a payload
\* and writeMessageEnd put [1,"<name>",<type>,<seqid>,<payload>] on the
\* transport, the integers unquoted; the closing ] is written by
\* writeMessageEnd; none of the writes fails.
BaseArrayWritten ==
  codec = "base"
    => /\ NoWriteFails
       /\ (Len(done) = WriteLen(scen) - 1)
            => trans.data = BaseMessageOpen(scen.m, scen.s, scen.i, scen.payload)
       /\ Returned("writeMessageEnd")
            => trans.data = BaseMessageOpen(scen.m, scen.s, scen.i, scen.payload) \o B("]")

BaseArrayWitness ==
  /\ codec = "base" /\ Returned("writeMessageEnd")
  /\ trans.data = B("[1,\"a\\\"\",3,-3,{\"0\":{\"i32\":-7},\"1\":{\"i32\":55}}]")

\* a value made of structs, fields, containers and integers only
RECURSIVE IntegersOnly(_)
IntegersOnly(v) ==
  /\ v.t # "T_STRING"
  /\ \A n \in 1..Len(v.sub) : IntegersOnly(v.sub[n])

\* C15: base codec round trip: for every header and every payload of
\* structs, fields, containers and integers, reading the written bytes with
\* the mirrored reads succeeds, returns the written name, message type and
\* seqid, the written field ids, type tags, sizes and values, and ends with
\* the context stack at the root.
BaseRoundTrip ==
  (codec = "base" /\ IntegersOnly(scen.payload))
    => /\ \A n \in 1..Len(done) :
            /\ done[n].err = "none"
            /\ done[n].call.op \in PayloadReads \cup {"readMessageBegin"}
                 => done[n].ret = Expected(done[n].call)
       /\ Returned("readMessageEnd") => Len(transport_contexts_) = 1

\* the base codec round trip of the messages whose seqid is not negative,
\* strings among the values
BaseRoundTripNonNegative ==
  (codec = "base" /\ scen.i >= 0)
    => /\ \A n \in 1..Len(done) :
            /\ done[n].err = "none"
            /\ done[n].call.op \in PayloadReads \cup {"readMessageBegin"}
                 => done[n].ret = Expected(done[n].call)
       /\ Returned("readMessageEnd") => Len(transport_contexts_) = 1

\* the calls of the n-th field of the struct a message carries are the calls
\* FieldBegins(n)..FieldEnds(n) of the writer
FieldBegins(n) == 3 + Len(WriteOpsSeq(SubSeq(scen.payload.sub, 1, n - 1)))
FieldEnds(n) == 2 + Len(WriteOpsSeq(SubSeq(scen.payload.sub, 1, n)))

\* the bytes the calls from..to appended to the transport
Appended(from, to) == SubSeq(trans.data, done[from - 1].len + 1, done[to].len)

\* C16: writeFieldBegin(type, id), the value and writeFieldEnd append
\* "<id>":{"<tag>":<value>} to the struct; a single comma goes ahead of
\* every field but the first, and after the last field writeFieldStop and
\* writeStructEnd append the closing brace only.
FieldsWritten ==
  /\ \A n \in 1..Len(scen.payload.sub) :
       Len(done) >= FieldEnds(n)
         => Appended(FieldBegins(n), FieldEnds(n))
              = (IF n > 1 THEN <<kJSONElemSeparator>> ELSE <<>>)
                  \o JsonFields(<<scen.payload.sub[n]>>)
  /\ Len(done) >= WriteLen(scen) - 1
       => Appended(FieldEnds(Len(scen.payload.sub)) + 1, WriteLen(scen) - 1)
            = <<kJSONObjectEnd>>

FieldsWrittenWitness ==
  /\ Len(scen.payload.sub) = 2
  /\ Len(done) = WriteLen(scen) - 1
  /\ Appended(FieldBegins(1), FieldEnds(1)) = B("\"0\":{\"str\":\"}\"}")
  /\ Appended(FieldBegins(2), FieldEnds(2)) = B(",\"1\":{\"i32\":55}")

\* the fields of the struct a message carries whose value is a map
MapFields == { n \in 1..Len(scen.payload.sub) : scen.payload.sub[n].et = "T_MAP" }
TheMap(n) == scen.payload.sub[n].sub[1]

\* C17: writeMapBegin(keyType, valType, size), the entries and writeMapEnd
\* append ["<keyTag>","<valTag>",<size>,{<k1>:<v1>,...}] after the colon of
\* the field: the size is an unquoted number, integer keys are between
\* quotes and integer values are not; writeMapBegin pushes two contexts and
\* writeMapEnd pops both, appending the closing brace and bracket.
MapsWritten ==
  \A n \in MapFields :
    /\ Len(done) > FieldBegins(n)
         => /\ done[FieldBegins(n) + 1].depth = done[FieldBegins(n)].depth + 2
            /\ Appended(FieldBegins(n) + 1, FieldBegins(n) + 1)
                 = <<kJSONPairSeparator, kJSONArrayStart>> \o Quoted(TypeTag[TheMap(n).kt])
                     \o <<kJSONElemSeparator>> \o Quoted(TypeTag[TheMap(n).et])
                     \o <<kJSONElemSeparator>> \o NatToStr(Len(TheMap(n).sub) \div 2)
                     \o <<kJSONElemSeparator, kJSONObjectStart>>
    /\ Len(done) >= FieldEnds(n) - 1
         => /\ done[FieldEnds(n) - 1].err = "none"
            /\ done[FieldEnds(n) - 1].depth = done[FieldBegins(n)].depth
            /\ Appended(FieldEnds(n) - 1, FieldEnds(n) - 1) = <<kJSONObjectEnd, kJSONArrayEnd>>
            /\ Appended(FieldBegins(n) + 1, FieldEnds(n) - 1)
                 = <<kJSONPairSeparator>> \o Json(TheMap(n))

MapsWrittenWitness ==
  /\ 1 \in MapFields
  /\ Len(done) >= FieldEnds(1) - 1
  /\ Appended(FieldBegins(1) + 1, FieldEnds(1) - 1) = B(":[\"i32\",\"i32\",2,{\"3\":4,\"-5\":6}]")

\* the bytes the reads are taking their input from
Source == IF Cur(Instance) = "T" THEN trans.data ELSE buffer_.data
\* the call before the last
Before == done[Len(done) - 1]
\* the last call found the byte ch next in its input
FoundNext(ch) ==
  /\ Len(done) >= 2
  /\ Before.rpos < Len(Source)
  /\ Source[Before.rpos + 1] = ch

\* C18: writeFieldStop writes no bytes.  A readFieldBegin that finds } next
\* returns the field type stop, leaves the context stack as deep as it was
\* and leaves the } with the reader of the struct's context; the
\* readStructEnd that follows takes the } from there, no further byte from
\* its input, and pops the context of the struct.
StopLeavesBrace ==
  /\ \A n \in 2..Len(done) :
       done[n].call.op = "writeFieldStop"
         => /\ done[n].err = "none"
            /\ done[n].len = done[n - 1].len
            /\ done[n].depth = done[n - 1].depth
  /\ (done # <<>> /\ LastCall.call.op = "readFieldBegin" /\ FoundNext(kJSONObjectEnd))
       => /\ LastCall.err = "none"
          /\ LastCall.ret.t = "T_STOP"
          /\ LastCall.depth = Before.depth
          /\ LastCall.rpos = Before.rpos + 1
          /\ Ctx(Instance).hasData
          /\ Ctx(Instance).data = kJSONObjectEnd
  /\ (/\ Len(done) >= 3
      /\ LastCall.call.op = "readStructEnd"
      /\ Before.call.op = "readFieldBegin"
      /\ Before.err = "none"
      /\ Before.ret.t = "T_STOP")
       => /\ LastCall.err = "none"
          /\ LastCall.depth = Before.depth - 1
          /\ LastCall.rpos = Before.rpos
          /\ Source[LastCall.rpos] = kJSONObjectEnd

StopLeavesBraceWitness ==
  /\ Len(done) >= 3
  /\ LastCall.call.op = "readStructEnd"
  /\ LastCall.err = "none"
  /\ Before.call.op = "readFieldBegin"
  /\ Before.ret.t = "T_STOP"
  /\ Before.depth = done[Len(done) - 2].depth
  /\ \E n \in 2..Len(done) :
       done[n].call.op = "writeFieldStop" /\ done[n].len = done[n - 1].len

----------------------------------------------------------------------------
(* Properties of reading what arrives (SpecRead)                           *)

\* the keys of an envelope, those of its error object among them
Keys(ms) ==
  ({ ms[n].k : n \in 1..Len(ms) } \ {kJSONRPCError})
    \cup UNION { { ms[n].sub[j].k : j \in 1..Len(ms[n].sub) } : n \in 1..Len(ms) }

\* the key sets of the seven recognized envelopes
AcceptedKeys ==
  { ({ shape.top[n] : n \in 1..Len(shape.top) } \ {kJSONRPCError})
      \cup { shape.err[n] : n \in 1..Len(shape.err) } : shape \in Shapes }

\* what readMessageBegin hands back
Outputs(messageType, name, seqid) == [Ret EXCEPT !.m = messageType, !.s = name, !.i = seqid]

\* C4: RPC readMessageBegin accepts each of the seven recognized envelopes
\* and derives its outputs from the final flags: REQUEST or FULL_REQUEST give
\* call, the method and the id; NOTIFICATION or FULL_NOTIFICATION give
\* oneway, the method and seqid 0; RESPONSE gives reply, the name "" and the
\* id; ERROR or FULL_ERROR give exception, the name "" and the id.
OutputsFromFlags ==
  /\ (scen.kind = "envelope" /\ done # <<>>) => done[1].err = "none"
  /\ (codec = "rpc" /\ Len(done) = 1 /\ done[1].err = "none")
       => CASE flags_ \in {JSONRPC_REQUEST, JSONRPC_FULL_REQUEST} ->
                 done[1].ret = Outputs(TMessageType.T_CALL, scen.s, scen.i)
            [] flags_ \in {JSONRPC_NOTIFICATION, JSONRPC_FULL_NOTIFICATION} ->
                 done[1].ret = Outputs(TMessageType.T_ONEWAY, scen.s, 0)
            [] flags_ = JSONRPC_RESPONSE ->
                 done[1].ret = Outputs(TMessageType.T_REPLY, <<>>, scen.i)
            [] flags_ \in {JSONRPC_ERROR, JSONRPC_FULL_ERROR} ->
                 done[1].ret = Outputs(TMessageType.T_EXCEPTION, <<>>, scen.i)
            [] OTHER -> FALSE

OutputsFromFlagsWitness ==
  /\ codec = "rpc" /\ Len(done) = 1 /\ done[1].err = "none"
  /\ flags_ = JSONRPC_FULL_NOTIFICATION /\ scen.i = 999
  /\ done[1].ret = Outputs(TMessageType.T_ONEWAY, B("a\""), 0)

\* C5: RPC readMessageBegin fails with INVALID_DATA on every envelope whose
\* keys are a subset of the eight flag keys other than the seven recognized
\* sets, the envelope {} among them; the mode is then TRANSPORT and the
\* recognized sets are accepted.
UnrecognizedFlagsRejected ==
  (scen.kind = "keys" /\ done # <<>>)
    => IF Keys(scen.mem) \in AcceptedKeys THEN done[1].err = "none"
       ELSE done[1].err = "INVALID_DATA" /\ mode_ = RW_TRANSPORT

UnrecognizedFlagsWitness ==
  /\ scen.kind = "keys" /\ scen.mem = <<>> /\ done # <<>>
  /\ done[1].err = "INVALID_DATA" /\ mode_ = RW_TRANSPORT

\* C6: when RPC readMessageBegin accepts an envelope without a params member
\* (REQUEST, NOTIFICATION) or without a data member (ERROR), buffer_ holds
\* exactly {} afterwards, readStructBegin succeeds, the first readFieldBegin
\* returns the type stop and readStructEnd succeeds.
EmptyStructSynthesized ==
  (scen.kind = "envelope" /\ ~HasPayload(scen.mem))
    => /\ \A n \in 1..Len(done) : done[n].err = "none"
       /\ Len(done) = 1
            => buffer_ = [data |-> <<kJSONObjectStart, kJSONObjectEnd>>, rpos |-> 0]
       /\ Len(done) >= 3
            => /\ done[2].call.op = "readStructBegin"
               /\ done[3].call.op = "readFieldBegin" /\ done[3].ret.t = "T_STOP"
       /\ Len(done) >= 4 => done[4].call.op = "readStructEnd"

EmptyStructWitness ==
  /\ scen.kind = "envelope" /\ ~HasPayload(scen.mem)
  /\ scen.mem[1].k = kJSONRPCError
  /\ Len(done) = 4 /\ done[4].err = "none" /\ done[3].ret.t = "T_STOP"

\* the members of the envelope ms in the order the writer uses
Canonical(ms) ==
  LET shape == CHOOSE sh \in Shapes :
                 ({ sh.top[n] : n \in 1..Len(sh.top) } \ {kJSONRPCError})
                   \cup { sh.err[n] : n \in 1..Len(sh.err) } = Keys(ms)
  IN [n \in 1..Len(shape.top) |->
        IF shape.top[n] = kJSONRPCError THEN ErrorMember(shape.err)
        ELSE Member(shape.top[n])]

\* readMessageBegin of a new instance on the envelope of sc
ReadOf(sc) ==
  RpcReadMessageBegin(
    [Instance EXCEPT !.mode = RW_TRANSPORT, !.flags = JSONRPC_UNSET,
                     !.message = [method |-> <<>>, id |-> 0, error_code |-> 0,
                                  error_message |-> <<>>],
                     !.buffer = EmptyTransport,
                     !.trans = [data |-> FedBytes(sc), rpos |-> 0],
                     !.tctx = NewContextStack("T"), !.bctx = NewContextStack("B")])

\* C7: RPC readMessageBegin does not depend on the order of the members:
\* for every order of the members of a recognized envelope and of the
\* members of its error object it ends as it does for the members in the
\* writer's order, and when it returns it returns the same messageType, name
\* and seqid and leaves the same bytes in buffer_.
OrderIndependent ==
  (scen.kind \in {"envelope", "brace"} /\ Len(done) = 1)
    => Bind(ReadOf([scen EXCEPT !.mem = Canonical(scen.mem)]), LAMBDA canon :
         /\ done[1].err = canon.err
         /\ done[1].err = "none"
              => /\ done[1].ret = Outputs(canon.mtype, canon.name, canon.seqid)
                 /\ buffer_.data = canon.buffer.data)

\* the order of the members is immaterial when no string of the struct holds
\* a brace: every order is accepted, with the outputs and the bytes in
\* buffer_ of the writer's order
OrderIndependentWithoutBraces ==
  (scen.kind = "envelope" /\ Len(done) = 1)
    => Bind(ReadOf([scen EXCEPT !.mem = Canonical(scen.mem)]), LAMBDA canon :
         /\ done[1].err = "none"
         /\ canon.err = "none"
         /\ done[1].ret = Outputs(canon.mtype, canon.name, canon.seqid)
         /\ buffer_.data = canon.buffer.data)

\* C9: a version mismatch is BAD_VERSION in both codecs: base
\* readMessageBegin fails with BAD_VERSION whenever the first element of the
\* array is an integer other than 1, RPC readMessageBegin whenever the
\* jsonrpc member is a string other than "2.0".
BadVersionReported ==
  (done # <<>> /\ \/ scen.kind = "badversion"
                  \/ scen.kind = "array" /\ scen.ver \notin {B("1"), B("01")})
    => done[1].err = "BAD_VERSION"

\* the versions that are BAD_VERSION
BadVersionInRange ==
  /\ (done # <<>> /\ scen.kind = "badversion") => done[1].err = "BAD_VERSION"
  /\ (done # <<>> /\ scen.kind = "array")
       => CASE scen.ver \in {B("1"), B("01")} -> done[1].err # "BAD_VERSION"
            [] scen.ver = B("18446744073709551616") -> done[1].err = "INVALID_DATA"
            [] scen.ver = B("-18446744073709551615") -> done[1].err # "BAD_VERSION"
            [] OTHER -> done[1].err = "BAD_VERSION"
----------------------------------------------------------------------------
(* Properties of sessions (SpecSession)                                    *)

\* the first call of a session threw one of the errors of a message begin
FirstBeginFailed ==
  /\ codec = "rpc" /\ done # <<>>
  /\ done[1].call.op \in {"readMessageBegin", "writeMessageBegin"}
  /\ done[1].err \in {"BAD_VERSION", "INVALID_DATA", "NOT_IMPLEMENTED"}

\* every failing prefix makes readMessageBegin throw, having pulled exactly
\* the prefix from the transport, and every bad type makes writeMessageBegin
\* throw
SessionsFail ==
  /\ (scen.kind \in {"reread", "rewrite"} /\ done # <<>>) => FirstBeginFailed
  /\ (scen.kind = "reread" /\ Len(done) = 1) => trans.rpos = Len(scen.pre)

\* C11: when an RPC message begin fails (bad version, unknown key, a byte
\* that is not the one expected, flags that are not a recognized set, an
\* unknown message type on write), buffer_ is empty and flags_ is UNSET when
\* the caller gets the exception.
FailureClearsScratch ==
  (FirstBeginFailed /\ Len(done) = 1)
    => buffer_ = EmptyTransport /\ flags_ = JSONRPC_UNSET

\* the failures that do clear buffer_ and flags_: the flags that are not a
\* recognized set, the unknown message type, and those before any member
\* was read
FailureClearsScratchAtDefault ==
  (FirstBeginFailed /\ Len(done) = 1
     /\ \/ scen.kind = "rewrite"
        \/ scen.pre \in {B("{}"), B("["), B("{\"jsonrpc\":\"2.0\",\"id\":1}"),
                         B("{\"jsonrpc\":\"2.0\",\"params\":{}}"),
                         B("{\"jsonrpc\":\"1.0\""), B("{\"bogus\"")})
    => buffer_ = EmptyTransport /\ flags_ = JSONRPC_UNSET

\* C12: after a message begin that failed, the next message begin on the
\* same instance does what it does on a new instance: readMessageBegin on
\* the well-formed envelope that follows ends the same way, returns the same
\* outputs, leaves the same bytes in buffer_ and the transport stack at the
\* root; writeMessageBegin, the struct and writeMessageEnd append the
\* envelope of the message and leave the transport stack at the root.
ReusableAfterFailure ==
  /\ (scen.kind = "reread" /\ Len(done) = 2 /\ FirstBeginFailed)
       => Bind(ReadOf(scen), LAMBDA fresh :
            /\ done[2].err = fresh.err
            /\ done[2].ret = Outputs(fresh.mtype, fresh.name, fresh.seqid)
            /\ buffer_.data = fresh.buffer.data
            /\ Len(transport_contexts_) = 1)
  /\ (scen.kind = "rewrite" /\ Len(done) >= 2 /\ FirstBeginFailed)
       => /\ \A n \in 2..Len(done) : done[n].err = "none"
          /\ Returned("writeMessageEnd")
               => /\ trans.data = B("{\"jsonrpc\":\"2.0\"")
                                    \o Envelope(scen.m, scen.s, scen.i, scen.payload)
                  /\ Len(transport_contexts_) = 1

\* the failures after which the instance is as new: those that had popped
\* or never pushed the context of the envelope
ReusableAfterWholeEnvelope ==
  (scen.kind = "reread" /\ Len(done) = 2 /\ FirstBeginFailed
     /\ scen.pre \in {B("{}"), B("["), B("{\"jsonrpc\":\"2.0\",\"id\":1}"),
                      B("{\"jsonrpc\":\"2.0\",\"params\":{}}")})
    => Bind(ReadOf(scen), LAMBDA fresh :
         /\ done[2].err = "none" /\ fresh.err = "none"
         /\ done[2].ret = Outputs(fresh.mtype, fresh.name, fresh.seqid)
         /\ buffer_.data = fresh.buffer.data
         /\ Len(transport_contexts_) = 1)

\* a successful readMessageBegin has returned and no readMessageEnd since
Reading ==
  \E n \in 1..Len(done) :
    /\ done[n].call.op = "readMessageBegin" /\ done[n].err = "none"
    /\ \A k \in (n + 1)..Len(done) : done[k].call.op # "readMessageEnd"

\* C13: the mode of the RPC codec is BUFFERED exactly from the return of a
\* successful readMessageBegin until the next readMessageEnd and TRANSPORT
\* at all other times: no other operation changes it.
ModeFollowsReads ==
  codec = "rpc" => (mode_ = RW_BUFFERED <=> Reading)

\* the flags writeMessageEnd has a case for
EndableFlags ==
  {JSONRPC_REQUEST, JSONRPC_FULL_REQUEST, JSONRPC_RESPONSE, JSONRPC_ERROR,
   JSONRPC_FULL_ERROR, JSONRPC_NOTIFICATION}

\* C24: RPC writeMessageEnd called when flags_ is not one of REQUEST,
\* FULL_REQUEST, RESPONSE, ERROR, FULL_ERROR, NOTIFICATION (with no
\* writeMessageBegin before it, a second time after a writeMessageEnd, after
\* a read) fails with INVALID_DATA, writes no byte to the transport, pops no
\* context, and leaves flags_ UNSET and buffer_ empty.
EndWithoutMessageRejected ==
  [][(codec = "rpc" /\ Calls("writeMessageEnd") /\ flags_ \notin EndableFlags)
       => /\ done'[Len(done')].err = "INVALID_DATA"
          /\ trans' = trans
          /\ transport_contexts_' = transport_contexts_
          /\ buffer_contexts_' = buffer_contexts_
          /\ flags_' = JSONRPC_UNSET
          /\ buffer_' = EmptyTransport]_vars

EndWithoutMessageWitness ==
  /\ scen.kind = "endtwice" /\ Len(done) = WriteLen(scen) + 1
  /\ Before.call.op = "writeMessageEnd" /\ Before.err = "none"
  /\ LastCall.call.op = "writeMessageEnd" /\ LastCall.err = "INVALID_DATA"
  /\ LastCall.len = Before.len /\ LastCall.depth = Before.depth
  /\ flags_ = JSONRPC_UNSET /\ buffer_ = EmptyTransport

\* A recognizer of JSON text made of objects, arrays, strings without
\* escapes and integers: the index after the value that starts at b[i], or
\* 0 when no value starts there.
RECURSIVE AfterValue(_, _)
RECURSIVE AfterMembers(_, _)
RECURSIVE AfterElements(_, _)
RECURSIVE AfterDigits(_, _)
RECURSIVE AfterString(_, _)
At(b, i) == IF i >= 1 /\ i <= Len(b) THEN b[i] ELSE 0 - 1

AfterString(b, i) ==
  IF i > Len(b) THEN 0
  ELSE IF b[i] = kJSONStringDelimiter THEN i + 1
  ELSE IF b[i] = kJSONBackslash THEN AfterString(b, i + 2)
  ELSE AfterString(b, i + 1)

AfterDigits(b, i) ==
  IF IsDigit(At(b, i)) THEN AfterDigits(b, i + 1) ELSE i

AfterMembers(b, i) ==
  IF At(b, i) # kJSONStringDelimiter THEN 0
  ELSE Bind(AfterString(b, i + 1), LAMBDA j :
         IF j = 0 \/ At(b, j) # kJSONPairSeparator THEN 0
         ELSE Bind(AfterValue(b, j + 1), LAMBDA k :
                IF k = 0 THEN 0
                ELSE IF At(b, k) = kJSONElemSeparator THEN AfterMembers(b, k + 1)
                ELSE IF At(b, k) = kJSONObjectEnd THEN k + 1
                ELSE 0))

AfterElements(b, i) ==
  Bind(AfterValue(b, i), LAMBDA k :
    IF k = 0 THEN 0
    ELSE IF At(b, k) = kJSONElemSeparator THEN AfterElements(b, k + 1)
    ELSE IF At(b, k) = kJSONArrayEnd THEN k + 1
    ELSE 0)

AfterValue(b, i) ==
  CASE At(b, i) = kJSONStringDelimiter -> AfterString(b, i + 1)
    [] At(b, i) = kJSONObjectStart ->
         IF At(b, i + 1) = kJSONObjectEnd THEN i + 2 ELSE AfterMembers(b, i + 1)
    [] At(b, i) = kJSONArrayStart ->
         IF At(b, i + 1) = kJSONArrayEnd THEN i + 2 ELSE AfterElements(b, i + 1)
    [] At(b, i) = Ord("-") ->
         IF IsDigit(At(b, i + 1)) THEN AfterDigits(b, i + 1) ELSE 0
    [] IsDigit(At(b, i)) -> AfterDigits(b, i)
    [] OTHER -> 0

WellFormedObject(b) ==
  At(b, 1) = kJSONObjectStart /\ AfterValue(b, 1) = Len(b) + 1

\* what an exception begun and ended with nothing between leaves
BareException(seqid) ==
  B("{\"jsonrpc\":\"2.0\",\"error\":{\"code\":-32000,\"message\":\"Thrift exception\",\"data\"},\"id\":")
    \o IntToStr(seqid) \o B("}")

\* C25: writeMessageBegin of an exception always emits the "data" key, so
\* a writeMessageEnd that follows it with no data struct written leaves
\* bytes that are not a well-formed JSON object: the key has no value. With
\* a struct written between the two the bytes are a well-formed object.
ExceptionNeedsData ==
  /\ (scen.kind = "nodata" /\ Len(done) >= 2)
       => /\ done[2].err = "none"
          /\ trans.data = BareException(scen.i)
          /\ ~WellFormedObject(trans.data)
  /\ (scen.kind = "endtwice" /\ Len(done) >= WriteLen(scen))
       => WellFormedObject(trans.data)

ExceptionNeedsDataWitness ==
  /\ scen.kind = "nodata" /\ script = <<>> /\ Len(done) = 4
  /\ done[1].call.op = "writeMessageBegin" /\ done[2].call.op = "writeMessageEnd"
  /\ trans.data = BareException(scen.i)
----------------------------------------------------------------------------
(* Properties of the sizes, ids and type tags read (SpecWire)              *)

\* the largest value the place of the text takes
LimitOf(kind) ==
  CASE kind = "field" -> B("32767")
    [] kind = "seqid" -> B("2147483647")
    [] OTHER -> B("4294967295")

\* the reader's calls are over: the last returned or one threw
WireOver == script = <<>> /\ done # <<>>

\* the text was accepted and, where the model computes the value (up to
\* 2^31-1), the value was returned
Accepted ==
  /\ Len(done) = Len(WireScript(scen))
  /\ LastCall.err = "none"
  /\ (scen.kind # "seqid" /\ DigitsLE(scen.ver, B("2147483647")))
       => LastCall.ret.i = DigitsVal(scen.ver)

\* C19: on read a size of a map, a list or a set above 2^32-1, a field id
\* above 32767 and a seqid of the base codec above 2^31-1 are reported as
\* SIZE_LIMIT by the call that meets them; every size in 0..2^32-1 (and every
\* id and seqid within its range) is accepted and returned unchanged.
SizeLimitReported ==
  (scen.kind \in NumKinds /\ WireOver)
    => IF DigitsLE(scen.ver, LimitOf(scen.kind)) THEN Accepted
       ELSE /\ Len(done) = Len(WireScript(scen))
            /\ LastCall.err = "SIZE_LIMIT"

\* the same of the texts that stand for a value up to 2^64-1
SizeLimitReportedBelow64 ==
  (scen.kind \in NumKinds /\ WireOver /\ DigitsLE(scen.ver, B("18446744073709551615")))
    => IF DigitsLE(scen.ver, LimitOf(scen.kind)) THEN Accepted
       ELSE /\ Len(done) = Len(WireScript(scen))
            /\ LastCall.err = "SIZE_LIMIT"

SizeLimitWitness ==
  /\ scen.kind = "map" /\ scen.ver = B("4294967296") /\ WireOver
  /\ LastCall.call.op = "readMapBegin" /\ LastCall.err = "SIZE_LIMIT"

\* the type a name of the type-tag alphabet stands for
TypeOfTag(text) == CHOOSE t \in NamedTypes : getTypeNameForTypeID(t) = text
IsTag(text) == \E t \in NamedTypes : getTypeNameForTypeID(t) = text

\* the type the writer passed
WrittenType == scen.payload.sub[1].sub[1].et

\* the names of the eleven types are written and read back as the same type
NamedTypesReadBack ==
  /\ (scen.kind = "types" /\ WrittenType \in NamedTypes)
       => /\ \A n \in 1..Len(done) : done[n].err = "none"
          /\ (done # <<>> /\ LastCall.call.op = "readListBegin")
               => LastCall.ret.t = WrittenType
  /\ (scen.kind = "tag" /\ IsTag(scen.ver) /\ WireOver)
       => /\ LastCall.call.op = "readListBegin"
          /\ LastCall.err = "none"
          /\ LastCall.ret.t = TypeOfTag(scen.ver)

\* a type id without a name fails with NOT_IMPLEMENTED on write
UnnamedTypesRefused ==
  (scen.kind = "types" /\ WrittenType \notin NamedTypes /\ WireOver)
    => /\ LastCall.call.op = "writeListBegin"
       /\ LastCall.err = "NOT_IMPLEMENTED"

\* C20: for each of the eleven types, reading the identifier written for it
\* (tf, i8, i16, i32, i64, dbl, str, rec, map, lst, set) returns the same
\* type; every string that is not one of the eleven identifiers fails with
\* NOT_IMPLEMENTED on read, and every type id outside the eleven, stop
\* among them, fails with NOT_IMPLEMENTED on write.
TypeTagsExact ==
  /\ NamedTypesReadBack
  /\ UnnamedTypesRefused
  /\ (scen.kind = "tag" /\ ~IsTag(scen.ver) /\ WireOver)
       => /\ LastCall.call.op = "readListBegin"
          /\ LastCall.err = "NOT_IMPLEMENTED"

\* the strings that are not identifiers and do not begin as one does fail
\* with NOT_IMPLEMENTED on read
StrangersRefused ==
  (scen.kind = "tag" /\ scen.ver \in {B("xx"), B("i"), B("i9"), B("I32"), B("sx")}
     /\ WireOver)
    => /\ LastCall.call.op = "readListBegin"
       /\ LastCall.err = "NOT_IMPLEMENTED"

TypeTagsWitness ==
  /\ scen.kind = "types" /\ WrittenType = "T_SET"
  /\ done # <<>> /\ LastCall.call.op = "readListBegin" /\ LastCall.ret.t = "T_SET"

----------------------------------------------------------------------------
(* Properties of the primitive calls (SpecPrim)                            *)

\* C21: string round trip: for every byte string s (every byte value 0..255,
\* NUL, control bytes, the quote and the backslash among them), readString
\* on the bytes writeString(s) wrote returns s.
StringRoundTrip ==
  scen.kind = "string"
    => /\ \A n \in 1..Len(done) : done[n].err = "none"
       /\ Returned("readString") => LastCall.ret.s = scen.s

\* the same of the strings without a NUL byte
StringRoundTripWithoutNul ==
  (scen.kind = "string" /\ \A n \in 1..Len(scen.s) : scen.s[n] # 0)
    => /\ \A n \in 1..Len(done) : done[n].err = "none"
       /\ Returned("readString") => LastCall.ret.s = scen.s

\* the calls of the scenario are over: the last returned or one threw
PrimOver == script = <<>> /\ done # <<>>

\* every high surrogate has a low surrogate right after it and every low
\* surrogate a high surrogate right before it
Paired(us) ==
  \A n \in 1..Len(us) :
    /\ us[n] = "high" => (n < Len(us) /\ us[n + 1] = "low")
    /\ us[n] = "low" => (n > 1 /\ us[n - 1] = "high")

\* the string the units stand for, a pair being U+1F600
RECURSIVE Decoded(_)
Decoded(us) ==
  IF us = <<>> THEN <<>>
  ELSE CASE Head(us) = "high" -> <<240, 159, 152, 128>> \o Decoded(Tail(Tail(us)))
         [] Head(us) = "unit" -> B("A") \o Decoded(Tail(us))
         [] Head(us) = "plain" -> B("x") \o Decoded(Tail(us))
         [] Head(us) = "simple" -> <<10>> \o Decoded(Tail(us))

\* C22: readString accepts a \u high surrogate only when the very next code
\* unit is a \u low surrogate, and rejects every unpaired surrogate with
\* INVALID_DATA: a low surrogate with no high surrogate before it, a high
\* surrogate followed by a plain byte, a simple escape, the closing quote,
\* another high surrogate or a \u escape that is no surrogate.
SurrogatesPaired ==
  (scen.kind = "escapes" /\ PrimOver)
    => IF Paired(scen.mem)
       THEN LastCall.err = "none" /\ LastCall.ret.s = Decoded(scen.mem)
       ELSE LastCall.err = "INVALID_DATA"

\* the unpaired surrogates readString does reject: a low surrogate that does
\* not follow a high surrogate, and a high surrogate followed by a plain
\* byte, a simple escape or the closing quote; and it accepts the paired
SurrogatesCheckedAtBytes ==
  (scen.kind = "escapes" /\ PrimOver)
    => /\ Paired(scen.mem)
            => LastCall.err = "none" /\ LastCall.ret.s = Decoded(scen.mem)
       /\ (\E n \in 1..Len(scen.mem) :
             \/ scen.mem[n] = "low" /\ (n = 1 \/ scen.mem[n - 1] # "high")
             \/ /\ scen.mem[n] = "high"
                /\ (n = Len(scen.mem) \/ scen.mem[n + 1] \in {"plain", "simple"}))
            => LastCall.err = "INVALID_DATA"

\* the number of characters writeBase64 is to write for n bytes
Base64Len(n) == 4 * (n \div 3) + (IF n % 3 = 0 THEN 0 ELSE (n % 3) + 1)

\* C23: binary round trip: for every byte sequence b, writeBinary writes, in
\* quotes, 4 characters for each full group of 3 bytes and 2 or 3 characters
\* for a remainder of 1 or 2 bytes, none of them the padding character =,
\* and readBinary on the written bytes returns b.
BinaryRoundTrip ==
  scen.kind = "binary"
    => /\ \A n \in 1..Len(done) : done[n].err = "none"
       /\ done # <<>>
            => /\ Len(trans.data) = Base64Len(Len(scen.s)) + 2
               /\ \A n \in 1..Len(trans.data) : trans.data[n] # Ord("=")
       /\ Returned("readBinary") => LastCall.ret.s = scen.s

BinaryRoundTripWitness ==
  /\ scen.kind = "binary" /\ scen.s = <<77, 0, 255, 128>>
  /\ Returned("readBinary")
  /\ trans.data = B("\"TQD/gA\"")
  /\ LastCall.ret.s = <<77, 0, 255, 128>>

----------------------------------------------------------------------------
(* Contexts, separators and the lookahead reader                           *)

CtxOver == script = <<>> /\ done # <<>>

Reads ==
  {"readStructBegin", "readStructEnd", "readListBegin", "readListEnd", "readI32",
   "readString"}

\* at the root an integer is directly followed by a child container
IntThenChildAtRoot(sc) ==
  /\ sc.outer = "bare"
  /\ \E k \in 1..(Len(sc.mem) - 1) : sc.mem[k] = "int" /\ sc.mem[k + 1] \in {"obj", "arr"}

\* every read so far returned what was written, and when the last call has
\* returned the reads have taken every byte of the transport
ReadBackInOrder ==
  /\ \A n \in 1..Len(done) :
       done[n].call.op \in Reads
         => done[n].err = "none" /\ done[n].ret = Expected(done[n].call)
  /\ CtxOver => LastCall.rpos = Len(trans.data)

\* C26: reads take the bytes of the transport in order, each byte once,
\* whatever the sequence of read calls: a byte peeked at through one context
\* is neither skipped nor read again by the next read through another
\* context, an integer read at the root followed by a struct or a list
\* included.  So the elements written into a struct, a list or the root are
\* read back by the same sequence of calls, and no context below the top
\* holds a byte.
ReadsInOrder ==
  scen.kind = "elements"
    => /\ ReadBackInOrder
       /\ \A n \in 1..(Len(transport_contexts_) - 1) : ~transport_contexts_[n].hasData

ReadsInOrderButAtRoot ==
  (scen.kind = "elements" /\ ~IntThenChildAtRoot(scen))
    => /\ ReadBackInOrder
       /\ \A n \in 1..(Len(transport_contexts_) - 1) : ~transport_contexts_[n].hasData

\* the bytes call n appended to the transport
WrittenBy(n) == SubSeq(trans.data, (IF n = 1 THEN 0 ELSE done[n - 1].len) + 1, done[n].len)

\* the calls of the scenario that write
WritesOf(sc) ==
  Len(OpenOps("write", sc) \o ElemsOps("write", sc.mem, 0) \o CloseOps("write", sc))

\* the separator of element at of a fed struct is not the one of SepOf
WrongSeparator(sc) ==
  /\ sc.kind = "separator"
  /\ sc.at >= 1 /\ sc.at < Len(sc.mem)
  /\ <<sc.byte>> # SepOf(sc.at)

\* C27: in a pair context the first element (a primitive or a child
\* container) is written with nothing ahead of it, every element of odd
\* index with a colon and every element of even index from 2 on with a comma
\* ahead of it (said of the last call, in every state).  Reading expects the same bytes: what was written is read
\* back, a struct with these separators is read whole, and any other byte
\* where a separator is expected makes the read of that element throw
\* INVALID_DATA.
PairSeparators ==
  /\ (scen.kind = "elements" /\ scen.outer = "pair")
       => /\ (Len(done) \in 2..WritesOf(scen) /\ LastCall.call.tick >= 0)
               => LET sep == SepOf(LastCall.call.tick)
                      text == WrittenBy(Len(done))
                  IN  /\ SubSeq(text, 1, Len(sep)) = sep
                      /\ text[Len(sep) + 1] \notin {kJSONPairSeparator, kJSONElemSeparator}
          /\ ReadBackInOrder
  /\ (scen.kind = "separator" /\ ~WrongSeparator(scen)) => ReadBackInOrder
  /\ WrongSeparator(scen)
       => \A n \in 1..Len(done) :
            IF done[n].call.tick = scen.at
            THEN done[n].err = "INVALID_DATA"
            ELSE done[n].err = "none" /\ done[n].ret = Expected(done[n].call)

PairSeparatorsWitness ==
  /\ scen.kind = "separator" /\ scen.mem = <<"int", "obj", "int", "int">>
  /\ scen.at = 3 /\ scen.byte = kJSONElemSeparator
  /\ trans.data = B("{\"-1\":{},\"-3\",23}")
  /\ Len(done) = 6 /\ LastCall.call.op = "readI32" /\ LastCall.err = "INVALID_DATA"

InQuotes(text) == <<kJSONStringDelimiter>> \o text \o <<kJSONStringDelimiter>>

\* C28: an integer written as element k of a pair context (counting from 0,
\* child containers counted) stands between double quotes iff k is even; an
\* integer written in a list context or at the root is never quoted (said
\* of the last call, in every state).
NumbersQuoted ==
  scen.kind = "elements"
    => LET k == LastCall.call.tick
           digits == IntToStr(LastCall.call.i)
       IN  (Len(done) \in 1..WritesOf(scen) /\ LastCall.call.op = "writeI32")
             => WrittenBy(Len(done)) =
                  CASE scen.outer = "pair" ->
                         SepOf(k) \o (IF k % 2 = 0 THEN InQuotes(digits) ELSE digits)
                    [] scen.outer = "list" -> <<kJSONElemSeparator>> \o digits
                    [] OTHER -> digits

NumbersQuotedWitness ==
  /\ scen.kind = "elements" /\ scen.outer = "pair" /\ scen.mem = <<"obj", "int", "int">>
  /\ Len(done) = WritesOf(scen)
  /\ trans.data = B("{{}:21,\"-3\"}")

Pushes == {"writeStructBegin", "readStructBegin", "writeListBegin", "readListBegin"}
Pops == {"writeStructEnd", "readStructEnd", "writeListEnd", "readListEnd"}

\* the kinds of the contexts pushed and not popped by the first n calls,
\* the root first
RECURSIVE KindsAfter(_)
KindsAfter(n) ==
  IF n = 0 \/ done[n].call.op = "construct" THEN <<"bare">>
  ELSE Bind(KindsAfter(n - 1), LAMBDA prev :
         IF done[n].err # "none" THEN prev
         ELSE IF done[n].call.op \in {"writeStructBegin", "readStructBegin"}
              THEN Append(prev, "pair")
         ELSE IF done[n].call.op \in {"writeListBegin", "readListBegin"}
              THEN Append(prev, "list")
         ELSE IF done[n].call.op \in Pops THEN SubSeq(prev, 1, Len(prev) - 1)
         ELSE prev)

\* what the context that call n is made in writes ahead of an element
ParentSep(n) ==
  IF done[n].call.tick < 0 THEN <<>>
  ELSE CASE scen.outer = "pair" -> SepOf(done[n].call.tick)
         [] scen.outer = "list" -> <<kJSONElemSeparator>>
         [] OTHER -> <<>>

\* every opener of b outside a string has its closer, and they nest
RECURSIVE Nests(_, _, _, _)
Nests(b, i, open, inString) ==
  IF i > Len(b) THEN open = <<>> /\ ~inString
  ELSE IF inString THEN Nests(b, i + 1, open, b[i] # kJSONStringDelimiter)
  ELSE IF b[i] = kJSONStringDelimiter THEN Nests(b, i + 1, open, TRUE)
  ELSE IF b[i] \in {kJSONObjectStart, kJSONArrayStart}
       THEN Nests(b, i + 1, Append(open, b[i]), FALSE)
  ELSE IF b[i] \in {kJSONObjectEnd, kJSONArrayEnd}
       THEN /\ open # <<>>
            /\ open[Len(open)] = (IF b[i] = kJSONObjectEnd THEN kJSONObjectStart
                                                          ELSE kJSONArrayStart)
            /\ Nests(b, i + 1, SubSeq(open, 1, Len(open) - 1), FALSE)
  ELSE Nests(b, i + 1, open, FALSE)

\* C29: after any sequence of pushes and pops the context stack holds the
\* contexts pushed and not yet popped, the most recent on top and the root
\* at the bottom.  A push that writes appends the separator of the previous
\* top, then the opener of the new context; a pop that writes appends the
\* closer of the context it removes; a push or a pop that reads has the
\* opener or that closer as the last byte taken, and the reads of a sequence
\* of pushes and pops all succeed (said of the last call, in every state).
\* What has been written when the last context is closed nests properly.
StackNests ==
  scen.kind = "elements"
    => /\ [n \in 1..Len(transport_contexts_) |-> transport_contexts_[n].kind]
            = KindsAfter(Len(done))
       /\ done # <<>>
            => LET n == Len(done)
               IN  /\ LastCall.depth = Len(transport_contexts_)
                   /\ (n <= WritesOf(scen) /\ LastCall.call.op \in Pushes)
                        => LET text == ParentSep(n) \o <<Opener(transport_contexts_[LastCall.depth].kind)>>
                           IN  SubSeq(WrittenBy(n), 1, Len(text)) = text
                   /\ (n <= WritesOf(scen) /\ LastCall.call.op \in Pops)
                        => WrittenBy(n) = <<Closer(KindsAfter(n - 1)[Before.depth])>>
                   /\ (LastCall.call.op \in {"readStructBegin", "readStructEnd", "readListEnd"}
                         /\ LastCall.err = "none")
                        => trans.data[LastCall.rpos]
                             = (IF LastCall.call.op \in Pushes
                                THEN Opener(transport_contexts_[LastCall.depth].kind)
                                ELSE Closer(KindsAfter(n - 1)[Before.depth]))
                   /\ (LastCall.call.op \in Pushes \cup Pops /\ ~IntThenChildAtRoot(scen))
                        => LastCall.err = "none"
       /\ Len(done) = WritesOf(scen) => Nests(trans.data, 1, <<>>, FALSE)

StackNestsWitness ==
  /\ scen.kind = "elements" /\ scen.outer = "list" /\ scen.mem = <<"obj", "arr", "obj">>
  /\ CtxOver /\ LastCall.call.op = "readListEnd" /\ LastCall.err = "none"
  /\ LastCall.depth = 1
  /\ trans.data = B("[\"str\",3,{},[\"i32\",0],{}]")

\* the reader holds a byte when call n is made: the call before was a peek
HeldAt(n) == n > 1 /\ done[n - 1].call.op = "peek"
\* the bytes pulled from the transport before call n
PulledAt(n) == IF n = 1 THEN 0 ELSE done[n - 1].rpos

\* C30: a peek() pulls one byte from the transport when the reader holds
\* none and no byte when it holds one, so consecutive peeks return the same
\* byte; the read() after a peek() returns that byte, pulls nothing and
\* leaves the reader empty; a read() on an empty reader pulls exactly one
\* byte and returns it.  At the end of the transport the pull throws.
LookaheadOneByte ==
  scen.kind = "reader"
    => /\ \A n \in 1..Len(done) :
            IF HeldAt(n)
            THEN /\ done[n].err = "none"
                 /\ done[n].rpos = PulledAt(n)
                 /\ done[n].ret.i = done[n - 1].ret.i
            ELSE IF PulledAt(n) < Len(trans.data)
                 THEN /\ done[n].err = "none"
                      /\ done[n].rpos = PulledAt(n) + 1
                      /\ done[n].ret.i = trans.data[PulledAt(n) + 1]
            ELSE done[n].err = "END_OF_FILE" /\ done[n].rpos = PulledAt(n)
       /\ done # <<>>
            => transport_contexts_[1].hasData
                 = (LastCall.call.op = "peek" /\ LastCall.err = "none")

LookaheadWitness ==
  /\ scen.kind = "reader" /\ scen.mem = <<"peek", "peek", "read", "read", "peek">>
  /\ scen.pre = B("aab") /\ script = <<>>
  /\ [n \in 1..5 |-> done[n].rpos] = <<1, 1, 1, 2, 3>>
  /\ [n \in 1..5 |-> done[n].ret.i] = <<Ord("a"), Ord("a"), Ord("a"), Ord("a"), Ord("b")>>
----------------------------------------------------------------------------
(* Numbers, binaries and objects another writer sent                        *)

\* the runs that are an integer of the type asked for, and the integer
GoodRun(text, op) ==
  /\ text \in {B("7"), B("-12"), B("+5"), B("007"), B("127"), B("128"), B("255"), B("256"),
               B("300"), B("-128"), B("-129"), B("32767"), B("32768")}
  /\ op # "readI32" => text # B("32768")
RunValue(text) ==
  CASE text = B("7") -> 7 [] text = B("-12") -> 0 - 12 [] text = B("+5") -> 5
    [] text = B("007") -> 7 [] text = B("127") -> 127 [] text = B("128") -> 128
    [] text = B("255") -> 255 [] text = B("256") -> 256 [] text = B("300") -> 300
    [] text = B("-128") -> 0 - 128 [] text = B("-129") -> 0 - 129
    [] text = B("32767") -> 32767 [] text = B("32768") -> 32768
    [] OTHER -> 0

\* the place of the integer read among the calls of the scenario
NumCall(sc) == IF sc.outer = "value" THEN 3 ELSE IF sc.outer = "bare" THEN 1 ELSE 2
\* the place on the transport of the byte after the run
AfterRun(sc) ==
  (CASE sc.outer = "key" -> 1 [] sc.outer = "value" -> 5 [] sc.outer = "list" -> 9
     [] OTHER -> 0) + Len(sc.ver) + 1

\* the read of the number is wanted to return
NumberWanted(sc) ==
  /\ GoodRun(sc.ver, sc.op)
  /\ IF sc.outer = "key" THEN sc.open /\ sc.close ELSE ~sc.open

\* C31: where escapeNum() is true (a key of a struct) readInteger wants a
\* double quote before and after the numeric characters, elsewhere it reads
\* them bare.  A missing quote around a key, a quote ahead of a number that
\* is no key, and a run of numeric characters that is no integer of the type
\* asked for (the empty run too) throw INVALID_DATA.  The byte after a bare
\* number is pulled from the transport but stays in the reader: the next
\* read gets it.
IntegersRead ==
  (scen.kind = "number" /\ scen.op \in {"readI32", "readI16"}
     /\ Len(done) >= NumCall(scen))
    => LET got == done[NumCall(scen)]
       IN  IF NumberWanted(scen)
           THEN /\ got.err = "none" /\ got.ret.i = RunValue(scen.ver)
                /\ scen.outer # "key"
                     => /\ got.rpos = AfterRun(scen)
                        /\ Len(done) = NumCall(scen)
                             => /\ transport_contexts_[Len(transport_contexts_)].hasData
                                /\ transport_contexts_[Len(transport_contexts_)].data
                                     = trans.data[AfterRun(scen)]
                        /\ (Len(done) > NumCall(scen) /\ ~scen.close)
                             => /\ done[NumCall(scen) + 1].err = "none"
                                /\ done[NumCall(scen) + 1].rpos = AfterRun(scen)
                /\ scen.outer = "key"
                     => /\ got.rpos = AfterRun(scen) + 1
                        /\ Len(done) > NumCall(scen)
                             => /\ done[NumCall(scen) + 1].err = "none"
                                /\ done[NumCall(scen) + 1].ret.i = 0
           ELSE got.err = "INVALID_DATA"

IntegersReadWitness ==
  /\ scen.kind = "number" /\ scen.outer = "value" /\ scen.op = "readI16"
  /\ scen.ver = B("-12") /\ ~scen.open /\ ~scen.close
  /\ script = <<>> /\ Len(done) = 4 /\ done[3].ret.i = 0 - 12
  /\ LastCall.call.op = "readStructEnd" /\ LastCall.err = "none"

\* C35: readByte reads the integer as an int16_t tmp and narrows it to 8
\* bits behind assert(tmp < 256) only.  Every int8_t written by writeByte is
\* read back; a tmp in 128..255 passes the assertion and is returned as
\* tmp - 256 with no error; the assertion fails, where it is compiled in,
\* only for a tmp of 256 or more, which is otherwise narrowed the same way.
BytesNarrowed ==
  /\ (scen.kind = "byte" /\ Len(done) >= 6)
       => done[6].err = "none" /\ done[6].ret.i = scen.i
  /\ (scen.kind = "number" /\ scen.op = "readByte" /\ Len(done) >= NumCall(scen)
        /\ NumberWanted(scen))
       => LET got == done[NumCall(scen)]
              tmp == RunValue(scen.ver)
          IN  /\ got.err = "ABORT" => tmp >= 256
              /\ tmp < 256 => got.err = "none"
              /\ got.err \in {"none", "ABORT"}
              /\ (got.err = "none" /\ tmp \in (0 - 128)..127) => got.ret.i = tmp
              /\ (got.err = "none" /\ tmp \in 128..255) => got.ret.i = tmp - 256
              /\ (got.err = "none" /\ tmp = 300) => got.ret.i = 44

BytesNarrowedWitness ==
  /\ scen.kind = "number" /\ scen.op = "readByte" /\ scen.outer = "list"
  /\ scen.ver = B("255") /\ ~scen.open /\ ~scen.close
  /\ Len(done) = 3 /\ done[2].err = "none" /\ done[2].ret.i = 0 - 1

\* the assertion of readByte has failed
ByteAsserted == scen.kind = "number" /\ done # <<>> /\ LastCall.err = "ABORT"

\* the numbers among DoubleTexts, and the doubles they stand for
FiniteTexts == {B("0"), B("1.5"), B("-2.0"), B("1e+22"), B("0.10000000000000001")}
DoubleOf(text) ==
  CASE text = B("-2.0") -> B("-2")
    [] text = B("1e+22") -> B("1e22")
    [] text = B("0.10000000000000001") -> B("0.1")
    [] OTHER -> text

\* the place of writeDouble among the calls, and what the context writes
\* ahead of the double
DoubleCall(sc) == IF sc.outer = "value" THEN 3 ELSE 2
DoubleReadCall(sc) == Len(DoubleOps("write", sc)) + 1 + DoubleCall(sc)
DoubleSep(sc) ==
  CASE sc.outer = "value" -> <<kJSONPairSeparator>>
    [] sc.outer = "list" -> <<kJSONElemSeparator>>
    [] OTHER -> <<>>

\* C32: writeDouble puts the token between double quotes iff the value is
\* NaN, +Infinity or -Infinity or escapeNum() is true (a key of a struct),
\* and what it wrote is read back.  readDouble takes the quoted tokens
\* "NaN", "Infinity" and "-Infinity" in any position; a number between
\* quotes where escapeNum() is false and a bare number where it is true
\* throw INVALID_DATA; a number quoted as a key or bare elsewhere is read.
DoublesQuoted ==
  /\ (scen.kind = "double" /\ Len(done) >= DoubleCall(scen))
       => LET text == SubSeq(WrittenBy(DoubleCall(scen)), Len(DoubleSep(scen)) + 1,
                             Len(WrittenBy(DoubleCall(scen))))
          IN  /\ done[DoubleCall(scen)].err = "none"
              /\ SubSeq(WrittenBy(DoubleCall(scen)), 1, Len(DoubleSep(scen))) = DoubleSep(scen)
              /\ IF scen.s \in {B("NaN"), B("Infinity"), B("-Infinity")} \/ scen.outer = "key"
                 THEN /\ Len(text) >= 3
                      /\ text[1] = kJSONStringDelimiter
                      /\ text[Len(text)] = kJSONStringDelimiter
                      /\ \A n \in 2..(Len(text) - 1) : text[n] # kJSONStringDelimiter
                 ELSE /\ text # <<>>
                      /\ \A n \in 1..Len(text) : text[n] # kJSONStringDelimiter
  /\ (scen.kind = "double" /\ Len(done) >= DoubleReadCall(scen))
       => /\ done[DoubleReadCall(scen)].err = "none"
          /\ done[DoubleReadCall(scen)].ret.s = scen.s
  /\ (scen.kind = "number" /\ scen.op = "readDouble" /\ Len(done) >= NumCall(scen))
       => LET got == done[NumCall(scen)]
          IN  /\ (scen.ver \in {B("NaN"), B("Infinity"), B("-Infinity")} /\ scen.open)
                   => got.err = "none" /\ got.ret.s = scen.ver
              /\ scen.ver \in FiniteTexts
                   => IF scen.open = (scen.outer = "key")
                      THEN got.err = "none" /\ got.ret.s = DoubleOf(scen.ver)
                      ELSE got.err = "INVALID_DATA"

DoublesQuotedWitness ==
  /\ scen.kind = "number" /\ scen.op = "readDouble" /\ scen.outer = "list"
  /\ scen.ver = B("1.5") /\ scen.open
  /\ trans.data = B("[\"i32\",1,\"1.5\"]")
  /\ Len(done) = 2 /\ LastCall.call.op = "readDouble" /\ LastCall.err = "INVALID_DATA"

\* a Base64 text without its padding: two = at most are taken from its end
Stripped(text) ==
  IF text # <<>> /\ text[Len(text)] = Ord("=")
  THEN IF Len(text) >= 2 /\ text[Len(text) - 1] = Ord("=")
       THEN SubSeq(text, 1, Len(text) - 2)
       ELSE SubSeq(text, 1, Len(text) - 1)
  ELSE text

\* the bytes the unpadded texts of PaddedTexts stand for; a single character
\* after the groups of four stands for nothing
DecodedText(text) ==
  CASE text = B("TQ") -> <<77>>
    [] text \in {B("TQD/"), B("TQD/g")} -> <<77, 0, 255>>
    [] text = B("TQD/gA") -> <<77, 0, 255, 128>>
    [] text = B("TQD/gID/") -> <<77, 0, 255, 128, 128, 255>>
    [] OTHER -> <<>>

\* C33: readBase64 takes two = at most from the end of the text before it
\* decodes, for every text, the texts "", "=", "==" and "===" included, and
\* never reads outside the text; a padded text gives the bytes of the same
\* text without its padding; a single character left after the groups of
\* four is dropped with no error.
PaddingStripped ==
  (scen.kind = "padded" /\ done # <<>>)
    => LastCall.err = "none" /\ LastCall.ret.s = DecodedText(Stripped(scen.ver))

PaddingStrippedButAlone ==
  (scen.kind = "padded" /\ done # <<>> /\ scen.ver # B("=="))
    => LastCall.err = "none" /\ LastCall.ret.s = DecodedText(Stripped(scen.ver))

\* C34: readObject copies exactly the bytes of one complete JSON object,
\* through the brace that balances the opening one: for every struct the
\* codec can write as params, result or data of an envelope, with or without
\* string values, readMessageBegin returns with buffer_ holding the bytes of
\* that struct and nothing else.
ObjectCopied ==
  (scen.kind \in {"envelope", "brace"} /\ Len(done) = 1 /\ HasPayload(scen.mem))
    => /\ done[1].err = "none"
       /\ buffer_.data = Json(scen.payload)

\* the object is copied whole when no string of it holds a brace
ObjectCopiedWithoutBraces ==
  (scen.kind = "envelope" /\ Len(done) = 1 /\ HasPayload(scen.mem))
    => /\ done[1].err = "none"
       /\ buffer_.data = Json(scen.payload)

\* what readMessageBegin returns for the envelope of sc
Expect(sc) ==
  LET keys == Keys(sc.mem)
  IN  CASE kJSONRPCMethod \in keys /\ kJSONRPCId \in keys ->
             Outputs(TMessageType.T_CALL, sc.s, sc.i)
        [] kJSONRPCMethod \in keys -> Outputs(TMessageType.T_ONEWAY, sc.s, 0)
        [] kJSONRPCResult \in keys -> Outputs(TMessageType.T_REPLY, <<>>, sc.i)
        [] OTHER -> Outputs(TMessageType.T_EXCEPTION, <<>>, sc.i)

\* the calls of the first message of two
FirstLen(sc) == Len(ReadOps(StructOf(sc))) + 2

\* no context of the transport holds a byte it has pulled and not handed out
NothingHeld == \A n \in 1..Len(transport_contexts_) : ~transport_contexts_[n].hasData

ScratchOneObject ==
  (scen.kind \in {"envelope", "keys", "duplicate"} /\ Len(done) = 1
     /\ done[1].err = "none")
    => WellFormedObject(buffer_.data)

\* buffer_ holds one object when no member that carries the struct is repeated
ScratchOneObjectUnlessRepeated ==
  (scen.kind \in {"envelope", "keys"} /\ Len(done) = 1 /\ done[1].err = "none")
    => WellFormedObject(buffer_.data)

\* an envelope with params twice is accepted, buffer_ holding both objects
RepeatedParamsAppended ==
  /\ scen.kind = "duplicate" /\ Len(done) = 1 /\ done[1].err = "none"
  /\ done[1].ret = Outputs(TMessageType.T_CALL, B("go"), 999)
  /\ buffer_.data = B("{\"0\":{\"i32\":-7}}{\"0\":{\"i32\":-7}}")

\* C38: RPC readMessageBegin recognizes the keys by nesting level, code,
\* message and data inside the error object only; so the message type
\* exception is returned only for envelopes that contain an error member.
ExceptionNeedsErrorMember ==
  (scen.kind \in {"envelope", "keys", "duplicate"} /\ Len(done) = 1
     /\ done[1].err = "none" /\ done[1].ret.m = TMessageType.T_EXCEPTION)
    => \E n \in 1..Len(scen.mem) : scen.mem[n].k = kJSONRPCError

\* in the envelopes whose members are at the level the writer puts them,
\* exception is returned only with an error member
ExceptionNeedsErrorMemberInShape ==
  (scen.kind \in {"envelope", "duplicate"} /\ Len(done) = 1
     /\ done[1].err = "none" /\ done[1].ret.m = TMessageType.T_EXCEPTION)
    => \E n \in 1..Len(scen.mem) : scen.mem[n].k = kJSONRPCError

\* code, message and data at the top level are accepted as an exception
FlatErrorAccepted ==
  /\ scen.kind = "keys" /\ Len(done) = 1 /\ done[1].err = "none"
  /\ done[1].ret.m = TMessageType.T_EXCEPTION
  /\ Keys(scen.mem) = {kJSONRPCName, kJSONRPCCode, kJSONRPCMessage, kJSONRPCData,
                       kJSONRPCId}

\* C39: the write side and the read side of one RPC instance do not disturb
\* each other: a complete read sequence between writeMessageBegin and the
\* writes of the struct fails nowhere and leaves the written envelope as it
\* is without it; a complete write sequence between readMessageBegin and the
\* reads of the struct fails nowhere and leaves buffer_, mode_ and the
\* values the remaining reads return unchanged.
SidesApart ==
  (scen.kind \in {"interleaved", "readinwrite"} /\ done # <<>>)
    => /\ LastCall.err = "none"
       /\ (scen.kind = "readinwrite" /\ script = <<>>)
            => trans.data = FedBytes(scen)
                              \o Envelope(scen.m, scen.s, scen.i, scen.payload)
       /\ (scen.kind = "interleaved" /\ Len(done) \in 2..6)
            => /\ buffer_.data = Json(StructOf(scen))
               /\ mode_ = RW_BUFFERED
       /\ (scen.kind = "interleaved" /\ LastCall.call.op = "readI32")
            => LastCall.ret.i = 0 - 7

\* writeMessageBegin between readMessageBegin and the reads empties buffer_
WriteEmptiesScratch ==
  /\ scen.kind = "interleaved" /\ Len(done) = 2 /\ LastCall.err = "none"
  /\ done[1].err = "none" /\ HasPayload(scen.mem)
  /\ buffer_.data = <<>> /\ mode_ = RW_TRANSPORT

\* readMessageBegin after writeMessageBegin fails
ReadInWriteFails ==
  /\ scen.kind = "readinwrite" /\ Len(done) = 2 /\ done[1].err = "none"
  /\ LastCall.err # "none"

\* C40: in every byte sequence the RPC writer produces for a message of
\* one of the four types with one well-nested struct between begin and end,
\* every pair context is closed after an even number of elements (every
\* object written consists of key:value pairs) and every context pushed is
\* popped exactly once (the bytes are one balanced object and the stack is
\* back at the root context).
ContextsClosedEven ==
  (codec = "rpc" /\ Returned("writeMessageEnd"))
    => /\ WellFormedObject(trans.data)
       /\ Len(transport_contexts_) = 1 /\ Len(buffer_contexts_) = 1
       /\ transport_contexts_[1].kind = "bare"

ContextsClosedEvenWitness ==
  /\ codec = "rpc" /\ Returned("writeMessageEnd")
  /\ scen.m = TMessageType.T_EXCEPTION
  /\ Len(scen.payload.sub) = 2
  /\ scen.payload.sub[1].sub[1].t = "T_MAP"
  /\ scen.payload.sub[1].sub[1].et = "T_LIST"
  /\ scen.payload.sub[2].sub[1] = StrV(B("{"))
  /\ WellFormedObject(trans.data)
  /\ Len(transport_contexts_) = 1

=============================================================================
